---- MODULE Spec2Model ----
(***************************************************************************)
(* Content-addressed bundle store: the server's blob store (PUT /blobs),   *)
(* bundle registry (POST /bundles) and preflight, over one data root.      *)
(*                                                                         *)
(* Scheduling: every route is an `async def` run on one event loop.  A     *)
(* handler runs without interruption between two awaits.  The only await   *)
(* in the modelled routes is `async for chunk in request.stream()` in      *)
(* upload_blob, so an upload is interleaved with other requests at chunk   *)
(* boundaries, and create_bundle / preflight run as one step each.         *)
(***************************************************************************)
EXTENDS Integers, Sequences, FiniteSets, TLC

\* ------------------------------------------------------------------ bounds
MaxBodyLen == 1     \* chunks a request body is streamed in
MaxFiles == 2       \* file entries of one draft
MaxRequests == 2    \* requests the server accepts in one behaviour
MicrosPerSecond == 2    \* ticks of the clock in one second (scaled from 10^6)
MaxLeaves == 3      \* entries of a list given to compute_merkle_root alone

\* int(os.environ.get("MAX_UPLOAD_BYTES", ONE_GB)): a deployment whose
\* limit is one byte.
MAX_UPLOAD_BYTES == 1

Bytes == {1}                    \* values of one streamed chunk
Paths == {1, 2}                 \* bundle paths, named by their rank in str order
Sizes == {1, 2}                 \* size_bytes a client declares for an entry
ClientIds == {1}                \* ids a client may choose for a draft
UploadReqs == {"u1", "u2"}      \* connections that carry upload requests

BoundedSeq(S, n) == UNION {[1..k -> S] : k \in 0..n}
Bodies == BoundedSeq(Bytes, MaxBodyLen)

\* ------------------------------------------------------------------ SHA-256
\* hashlib.sha256 over a byte string, collision-free: shortlex rank of the
\* string (bijective numeration in base |Bytes|).
RECURSIVE Sha256Bytes(_)
Sha256Bytes(s) ==
    IF s = <<>> THEN 0
    ELSE s[1] + Cardinality(Bytes) * Sha256Bytes(Tail(s))

NumBodies == Cardinality(Bodies)
\* Every hash a client can name: the digests of the bodies.
Hashes == 0..(NumBodies - 1)

\* A collision-free code of a pair of naturals.
CantorPair(a, b) == ((a + b) * (a + b + 1)) \div 2 + b

\* The leaf input without the content hash.
LeafDigest_PathOnly(p, h) == NumBodies + 2 * CantorPair(p, 0)

\* sha256(f"{bundle_path}:{hash}"): the input ends in ':' and 64 hex
\* characters, so it is longer than 64 bytes and determines both parts; its
\* digest differs from every body digest above and from every node digest.
LeafDigest(p, h) == NumBodies + 2 * CantorPair(p, h)

\* sha256(left + right) over two 32-byte digests: an input of exactly 64
\* bytes.
NodeDigest(l, r) == NumBodies + 2 * CantorPair(l, r) + 1

\* ------------------------------------------------------------------ merkle
\* sorted(..., key=lambda item: item[0]): stable insertion by path.
RECURSIVE InsertByPath(_, _)
InsertByPath(e, s) ==
    IF s = <<>> THEN <<e>>
    ELSE IF e.bundle_path < s[1].bundle_path THEN <<e>> \o s
    ELSE <<s[1]>> \o InsertByPath(e, Tail(s))

RECURSIVE SortByPath(_)
SortByPath(files) ==
    IF files = <<>> THEN <<>>
    ELSE LET n == Len(files)
         IN  InsertByPath(files[n], SortByPath(SubSeq(files, 1, n - 1)))

\* The pass without the duplication: the unpaired last digest is dropped.
PairLevel_DropLast(level) ==
    [i \in 1..(Len(level) \div 2) |->
        NodeDigest(level[2 * i - 1], level[2 * i])]

\* One pass of the while loop: duplicate the last digest of an odd level,
\* then hash adjacent pairs.
PairLevel(level) ==
    LET padded == IF Len(level) % 2 = 1
                  THEN Append(level, level[Len(level)])
                  ELSE level
    IN  [i \in 1..(Len(padded) \div 2) |->
            NodeDigest(padded[2 * i - 1], padded[2 * i])]

RECURSIVE MerkleReduce(_)
MerkleReduce(level) ==
    IF Len(level) > 1 THEN MerkleReduce(PairLevel(level)) ELSE level[1]

\* The root over the entries in the order given.
compute_merkle_root_Unsorted(files) ==
    LET leaf_digests == [i \in 1..Len(files) |->
                            LeafDigest(files[i].bundle_path, files[i].hash)]
    IN  IF leaf_digests = <<>> THEN Sha256Bytes(<<>>)
        ELSE MerkleReduce(leaf_digests)

compute_merkle_root(files) ==
    LET sorted == SortByPath(files)
        leaf_digests == [i \in 1..Len(sorted) |->
                            LeafDigest(sorted[i].bundle_path, sorted[i].hash)]
    IN  IF leaf_digests = <<>> THEN Sha256Bytes(<<>>)
        ELSE MerkleReduce(leaf_digests)

\* ------------------------------------------------------------------ inputs
\* To bound the drafts, the entry at the k-th path declares k bytes; no
\* route compares a declared size with a blob.
FileEntries ==
    {e \in [bundle_path : Paths, size_bytes : Sizes, hash : Hashes] :
        e.size_bytes = e.bundle_path}

\* validate_no_duplicate_paths
NoDuplicatePaths(files) ==
    \A i, j \in 1..Len(files) :
        files[i].bundle_path = files[j].bundle_path => i = j

FileLists == {fs \in BoundedSeq(FileEntries, MaxFiles) : NoDuplicatePaths(fs)}

\* The total taken for the number of entries.
SumSizes_Count(files) == Len(files)

\* create_bundle.py:66, sum(file.size_bytes for file in request.files)
RECURSIVE SumSizes(_)
SumSizes(files) ==
    IF files = <<>> THEN 0
    ELSE files[1].size_bytes + SumSizes(Tail(files))

\* -------------------------------------------------------------- validation
\* A string is a sequence of code points: '.' 46, '/' 47, '0' 48, 'A' 65,
\* 'a' 97, 'b' 98.
LowerHex == (48..57) \cup (97..102)

\* A bundle path is named by a number: 1 and 2 are "a" and "b"; 0, -1 and
\* -2 are "", "/a" and "a/../b".
BadPaths == {0, -1, -2}
PathText(p) ==
    CASE p = 1 -> <<97>>
      [] p = 2 -> <<98>>
      [] p = 0 -> <<>>
      [] p = -1 -> <<47, 97>>
      [] p = -2 -> <<97, 47, 46, 46, 47, 98>>

\* A hash string is named by a number: one from 0 up is a hexdigest() and
\* stands for its 64 lowercase hex characters; -1, -2 and -3 are a string
\* of 63 zeros, one of 65 zeros, and one of 64 characters that starts
\* with 'A'.
BadHashes == {-1, -2, -3}
BadHashText(h) ==
    CASE h = -1 -> [i \in 1..63 |-> 48]
      [] h = -2 -> [i \in 1..65 |-> 48]
      [] h = -3 -> [i \in 1..64 |-> IF i = 1 THEN 65 ELSE 48]

\* validation.py:17-25: TRUE when the string is returned, FALSE when
\* ValueError is raised.
validate_sha256_hash(hash_str) ==
    \/ hash_str >= 0
    \/ LET text == BadHashText(hash_str)
       IN  /\ Len(text) = 64
           /\ \A i \in 1..Len(text) : text[i] \in LowerHex

\* str.split("/")
RECURSIVE SplitSlash(_)
SplitSlash(path) ==
    IF \A i \in 1..Len(path) : path[i] # 47 THEN <<path>>
    ELSE LET i == CHOOSE k \in 1..Len(path) :
                      path[k] = 47 /\ \A j \in 1..(k - 1) : path[j] # 47
         IN  <<SubSeq(path, 1, i - 1)>>
                 \o SplitSlash(SubSeq(path, i + 1, Len(path)))

\* The check without the search for a '..' segment.
validate_relative_path_NoTraversal(path) ==
    /\ ~(path # <<>> /\ path[1] = 47)
    /\ path # <<>>

\* validation.py:41-50: TRUE when the path is returned, FALSE when
\* ValueError is raised.
validate_relative_path(path) ==
    /\ ~(path # <<>> /\ path[1] = 47)
    /\ LET parts == SplitSlash(path)
       IN  \A i \in 1..Len(parts) : parts[i] # <<46, 46>>
    /\ path # <<>>

\* shared/types.py:6-22, the validation of one Blob.
BlobValid(blob) ==
    /\ validate_relative_path(PathText(blob.bundle_path))
    /\ blob.size_bytes >= 0
    /\ validate_sha256_hash(blob.hash)

\* PreflightRequest and the files of BundleManifestDraft: every Blob is
\* valid and no path occurs twice.
FilesValid(files) ==
    /\ \A i \in 1..Len(files) : BlobValid(files[i])
    /\ NoDuplicatePaths(files)

\* One entry for every defect a Blob may have, and the lists that carry a
\* defect: one defective entry alone or behind a sound one, or two sound
\* entries with one path.
BadEntries ==
    {[bundle_path |-> p, size_bytes |-> 1, hash |-> 0] : p \in BadPaths}
    \cup {[bundle_path |-> 1, size_bytes |-> -1, hash |-> 0]}
    \cup {[bundle_path |-> 1, size_bytes |-> 1, hash |-> h] : h \in BadHashes}

DefectiveLists ==
    {<<blob>> : blob \in BadEntries}
    \cup {<<[bundle_path |-> 2, size_bytes |-> 2, hash |-> 0], blob>> :
              blob \in BadEntries}
    \cup {files \in [1..2 -> FileEntries] :
              files[1].bundle_path = files[2].bundle_path /\ files[1].hash = 0}

\* The requests that request validation refuses.
RejectedLists == {files \in FileLists \cup DefectiveLists : ~FilesValid(files)}

\* ------------------------------------------------------------------ state
VARIABLES
    blobs,          \* blobs/<aa>/<bb>/<hash>: hash -> bytes of the file
    tmp,            \* tmp/<timestamp>_<uuid>: temp name -> bytes written
    up,             \* per connection: the upload request in progress
    manifests,      \* bundles/manifests/<id>.json
    summaries,      \* bundles/summaries/<id>.json
    manifest_tmp,   \* bundles/manifests/<id>.tmp
    summary_tmp,    \* bundles/summaries/<id>.tmp
    last,           \* the request the server accepted last and, for a
                    \* bundle-level call, its response
    committed,      \* ids answered 201 by create_bundle, in order
    n_requests,     \* requests accepted so far (names the next temp file)
    n_ulid,         \* ULIDs generated so far
    clock,          \* datetime.utcnow() as last read; it never runs backwards
    mk,             \* one call of compute_merkle_root: its argument and result
    cli,            \* one create job of the command-line client
    commit          \* the create request whose commit is under way, when
                    \* the commit is followed call by call

serverVars == <<blobs, tmp, up, manifests, summaries, manifest_tmp,
                summary_tmp, last, committed, n_requests, n_ulid, clock,
                commit>>

vars == <<blobs, tmp, up, manifests, summaries, manifest_tmp, summary_tmp,
          last, committed, n_requests, n_ulid, clock, mk, cli, commit>>

fsBundles == <<manifests, summaries, manifest_tmp, summary_tmp>>

\* A partial function without / with one key.
Unlink(f, k) == [x \in DOMAIN f \ {k} |-> f[x]]
WriteFile(f, k, v) == [x \in DOMAIN f \cup {k} |-> IF x = k THEN v ELSE f[x]]

EmptyDir == [x \in {} |-> 0]

IdleUpload == [pc |-> "idle", hash |-> 0, tmp_path |-> 0, hasher |-> <<>>,
               status |-> 0, detail |-> "none"]

NoCall == [op |-> "none", conn |-> "none", status |-> 0, detail |-> "none", req_id |-> 0,
           id |-> 0, files |-> <<>>, req_root |-> 0, merkle_root |-> 0,
           missing |-> <<>>, archive |-> <<>>, size_bytes |-> 0,
           bundles |-> <<>>, page |-> 0, page_size |-> 0]

\* No commit under way.
NoCommit == [pc |-> "none", req_id |-> 0, id |-> 0, files |-> <<>>,
             merkle_root |-> 0]

\* No call of compute_merkle_root under observation.
NoMerkle == [pc |-> "none", files |-> <<>>, root |-> 0]

\* No client job under observation.
NoJob == [pc |-> "none", blobs |-> <<>>, missing |-> {}, tasks |-> <<>>,
          done |-> {}, computed_merkle_root |-> 0, response_root |-> 0,
          sent |-> FALSE, posted |-> FALSE, exit_code |-> 0, output |-> "none"]

ServerInit ==
    /\ blobs = EmptyDir
    /\ tmp = EmptyDir
    /\ up = [r \in UploadReqs |-> IdleUpload]
    /\ manifests = EmptyDir
    /\ summaries = EmptyDir
    /\ manifest_tmp = EmptyDir
    /\ summary_tmp = EmptyDir
    /\ last = NoCall
    /\ committed = <<>>
    /\ n_requests = 0
    /\ n_ulid = 0
    /\ clock = 0
    /\ commit = NoCommit

Init == ServerInit /\ mk = NoMerkle /\ cli = NoJob

\* ------------------------------------------------------------------ storage
\* The existence check looking at a path that never exists.
blob_exists_Never(h) == FALSE

\* The existence check that finds every hash.
blob_exists_Always(h) == TRUE

\* blob_exists: to_blob_path(hash).exists()
blob_exists(h) == h \in DOMAIN blobs

\* ------------------------------------------------------------------ upload
\* The response of a finished upload request; the handler's locals are gone.
UploadDone(u, status, detail) ==
    [IdleUpload EXCEPT !.pc = "done", !.hash = u.hash, !.status = status,
                       !.detail = detail]

\* The upload without its digest check.
HashMatches_Always(calculated_hash, hash) == TRUE

\* create_blob.py:80, the comparison of the streamed digest with the URL's.
HashMatches(calculated_hash, hash) == calculated_hash = hash

\* The rejected body left in tmp/.
RemoveInvalid_KeepTemp(b, t, u) == [blobs |-> b, tmp |-> t]

\* The rejected upload unlinking the blob path as well as its temp file.
RemoveInvalid_Blob(b, t, u) ==
    [blobs |-> Unlink(b, u.hash), tmp |-> Unlink(t, u.tmp_path)]

\* create_blob.py:81, tmp_path.unlink() of a body that failed the check.
RemoveInvalid(b, t, u) == [blobs |-> b, tmp |-> Unlink(t, u.tmp_path)]

\* The verified temp file removed instead of renamed.
PublishBlob_Dropped(b, t, u) == [blobs |-> b, tmp |-> Unlink(t, u.tmp_path)]

\* create_blob.py:88-90, tmp_path.rename(blob_path): the temp file becomes
\* the blob file, replacing a file already there.
PublishBlob(b, t, u) ==
    [blobs |-> WriteFile(b, u.hash, t[u.tmp_path]),
     tmp |-> Unlink(t, u.tmp_path)]

\* The cleanup path without its unlink.
CleanupTemp_Keep(b, t, u) == [blobs |-> b, tmp |-> t]

\* create_blob.py:99-103, the cleanup of `except Exception`.
CleanupTemp(b, t, u) ==
    [blobs |-> b,
     tmp |-> IF u.tmp_path \in DOMAIN t THEN Unlink(t, u.tmp_path) ELSE t]

\* The cap rejecting the limit itself.
TooLarge_AtLimit(size_bytes) == size_bytes >= MAX_UPLOAD_BYTES

\* create_blob.py:51, size_bytes > MAX_UPLOAD_BYTES.
TooLarge(size_bytes) == size_bytes > MAX_UPLOAD_BYTES

\* Line 19 (Query(..., ge=0), refused by the framework with 422) and lines
\* 44-72: validation, the exists short cut, and the creation of the temp
\* file, up to the first await on the request stream.
UploadBeginOn(r, hashes, sizes) ==
    /\ up[r].pc \in {"idle", "done"}
    /\ n_requests' = n_requests + 1
    /\ \E hash \in hashes, size_bytes \in sizes :
        LET u == [IdleUpload EXCEPT !.hash = hash]
            tmp_path == n_requests + 1
        IN  /\ last' = [NoCall EXCEPT !.op = "upload", !.conn = r,
                                      !.size_bytes = size_bytes]
            /\ IF size_bytes < 0 \/ ~validate_sha256_hash(hash)
               THEN /\ up' = [up EXCEPT ![r] = UploadDone(u, 422, "validation")]
                    /\ tmp' = tmp
               ELSE IF TooLarge(size_bytes)
               THEN /\ up' = [up EXCEPT ![r] = UploadDone(u, 413, "too_large")]
                    /\ tmp' = tmp
               ELSE IF blob_exists(hash)
               THEN /\ up' = [up EXCEPT ![r] = UploadDone(u, 200, "exists")]
                    /\ tmp' = tmp
               ELSE /\ up' = [up EXCEPT ![r] =
                           [u EXCEPT !.pc = "streaming", !.tmp_path = tmp_path]]
                    /\ tmp' = WriteFile(tmp, tmp_path, <<>>)
    /\ UNCHANGED <<mk, cli, commit, blobs, fsBundles, committed, n_ulid, clock>>

\* The requests of well-formed clients.
UploadBegin(r) ==
    /\ n_requests < MaxRequests
    /\ UploadBeginOn(r, Hashes, 0..(MAX_UPLOAD_BYTES + 1))

\* Lines 73-76: one chunk arrives and goes to the hasher and to the file;
\* bytes_written is counted and compared with nothing.  The client sends
\* at most max_len bytes.
UploadChunkOn(r, max_len) ==
    /\ up[r].pc = "streaming"
    /\ Len(up[r].hasher) < max_len
    /\ \E chunk \in Bytes :
        /\ up' = [up EXCEPT ![r].hasher = Append(@, chunk)]
        /\ tmp' = [tmp EXCEPT ![up[r].tmp_path] = Append(@, chunk)]
    /\ UNCHANGED <<mk, cli, commit, blobs, fsBundles, last, committed, n_requests, n_ulid,
                   clock>>

\* The bodies of well-formed clients.
UploadChunk(r) == UploadChunkOn(r, MaxBodyLen)

\* Lines 78-94 with 99-103: the stream ended; compare digests, then unlink
\* or rename.  mkdir or rename may raise, which takes the cleanup path.
UploadFinish(r) ==
    /\ up[r].pc = "streaming"
    /\ LET u == up[r]
           calculated_hash == Sha256Bytes(u.hasher)
       IN  IF ~HashMatches(calculated_hash, u.hash)
           THEN LET fs == RemoveInvalid(blobs, tmp, u)
                IN  /\ blobs' = fs.blobs
                    /\ tmp' = fs.tmp
                    /\ up' = [up EXCEPT ![r] =
                                UploadDone(u, 409, "hash_mismatch")]
           ELSE \E io_error \in BOOLEAN :
                LET fs == IF io_error THEN CleanupTemp(blobs, tmp, u)
                          ELSE PublishBlob(blobs, tmp, u)
                IN  /\ blobs' = fs.blobs
                    /\ tmp' = fs.tmp
                    /\ up' = [up EXCEPT ![r] =
                                IF io_error THEN UploadDone(u, 500, "storage")
                                ELSE UploadDone(u, 201, "created")]
    /\ UNCHANGED <<mk, cli, commit, fsBundles, last, committed, n_requests, n_ulid, clock>>

\* Lines 99-103: request.stream() or f.write raises (client gone, disk
\* error); the temp file is unlinked and the request answers 500.
UploadStreamError(r) ==
    /\ up[r].pc = "streaming"
    /\ LET fs == CleanupTemp(blobs, tmp, up[r])
       IN  /\ blobs' = fs.blobs
           /\ tmp' = fs.tmp
    /\ up' = [up EXCEPT ![r] = UploadDone(up[r], 500, "storage")]
    /\ UNCHANGED <<mk, cli, commit, fsBundles, last, committed, n_requests, n_ulid, clock>>

\* ------------------------------------------------------------------ create
\* An identifier that repeats: every call yields the same value.
ULID_Repeating(seq) == Cardinality(ClientIds) + 1

\* str(ULID()): a fresh identifier, unequal to every id chosen by a client.
ULID(seq) == Cardinality(ClientIds) + seq

\* Ids a draft may carry: 0 stands for an absent (or empty) id.  The route
\* reads request.id (lines 50-51); the contract class in shared/api_contracts
\* declares no such field, so the field is modelled as the optional id of the
\* specification's draft.
DraftIds == {0} \cup ClientIds \cup {ULID(k) : k \in 1..n_ulid}

\* Roots a draft may carry: the root of its files, and the root of another
\* file list (the empty one, or a one-entry list when the draft is empty).
DraftRoots(files) ==
    {compute_merkle_root(files),
     IF files = <<>> THEN LeafDigest(1, 0) ELSE compute_merkle_root(<<>>)}

\* The blob check skipped.
MissingHashes_None(files) == <<>>

\* The blob check stopping at the first absent hash.
MissingHashes_First(files) ==
    LET hashes == [i \in 1..Len(files) |-> files[i].hash]
        absent == SelectSeq(hashes, LAMBDA h : h \notin DOMAIN blobs)
    IN  IF absent = <<>> THEN <<>> ELSE <<absent[1]>>

\* Lines 39-42: the hashes of the request that are not published, in order.
MissingHashes(files) ==
    LET hashes == [i \in 1..Len(files) |-> files[i].hash]
    IN  SelectSeq(hashes, LAMBDA h : ~blob_exists(h))

\* The id check skipped.
IdConflict_Never(req_id) == FALSE

\* The id check looking at the temp path instead of the manifest path.
IdConflict_TempOnly(req_id) == req_id # 0 /\ req_id \in DOMAIN manifest_tmp

\* The id check inverted.
IdConflict_WhenAbsent(req_id) == req_id # 0 /\ req_id \notin DOMAIN manifests

\* Lines 49-59: a supplied id whose manifest exists is a conflict.
IdConflict(req_id) == req_id # 0 /\ req_id \in DOMAIN manifests

\* The root check skipped.
RootMatches_Always(merkle_root, computed_merkle_root) == TRUE

\* Line 70, the comparison of the draft's root with the recomputed one.
RootMatches(merkle_root, computed_merkle_root) ==
    merkle_root = computed_merkle_root

\* datetime.isoformat() of an instant t, counted in microseconds: the
\* seconds, then '.' and the microseconds unless they are zero.  Characters
\* are their code points ('0' is 48, '.' is 46); the date and time fields
\* have a fixed width and are one digit here, and so is the fraction.
isoformat(t) ==
    LET second == t \div MicrosPerSecond
        microsecond == t % MicrosPerSecond
    IN  IF microsecond = 0 THEN <<48 + second>>
        ELSE <<48 + second, 46, 48 + microsecond>>

\* Line 79: datetime.utcnow().isoformat() + "Z" ('Z' is 90).
CreatedAt(t) == isoformat(t) \o <<90>>

\* Lines 82-90.
Manifest(bundle_id, created_at, files, merkle_root) ==
    [id |-> bundle_id, created_at |-> created_at, hash_algo |-> "sha256",
     files |-> files, file_count |-> Len(files),
     total_bytes |-> SumSizes(files), merkle_root |-> merkle_root]

\* The summary that carries the file entries as well.
Summary_WithFiles(bundle_id, created_at, files, merkle_root) ==
    [id |-> bundle_id, created_at |-> created_at, hash_algo |-> "sha256",
     files |-> files, file_count |-> Len(files),
     total_bytes |-> SumSizes(files), merkle_root |-> merkle_root]

\* Lines 93-100.
Summary(bundle_id, created_at, files, merkle_root) ==
    [id |-> bundle_id, created_at |-> created_at, hash_algo |-> "sha256",
     file_count |-> Len(files), total_bytes |-> SumSizes(files),
     merkle_root |-> merkle_root]

\* The four directories a commit touches, as one value.
BundleFs == [m |-> manifests, s |-> summaries,
             mt |-> manifest_tmp, st |-> summary_tmp]

\* The cleanup without the unlink of the renamed manifest.
CommitCleanup_KeepManifest(fs, id) ==
    [fs EXCEPT !.mt = Unlink(@, id), !.st = Unlink(@, id)]

\* The cleanup without the unlink of the summary's temp file.
CommitCleanup_KeepSummaryTemp(fs, id) ==
    [fs EXCEPT !.mt = Unlink(@, id), !.m = Unlink(@, id)]

\* Lines 123-132: the cleanup of the except branch.
CommitCleanup(fs, id) ==
    [fs EXCEPT !.mt = Unlink(@, id), !.st = Unlink(@, id), !.m = Unlink(@, id)]

\* Lines 115-132: write and rename the manifest, then the summary; `fault`
\* names the file whose write_text or rename raises.  A write that raises
\* may leave its temp file; the cleanup treats both calls alike.
CommitFiles(fs, id, manifest, summary, fault) ==
    LET w1 == [fs EXCEPT !.mt = WriteFile(@, id, manifest)]
        r1 == [w1 EXCEPT !.m = WriteFile(@, id, w1.mt[id]),
                         !.mt = Unlink(@, id)]
        w2 == [r1 EXCEPT !.st = WriteFile(@, id, summary)]
        r2 == [w2 EXCEPT !.s = WriteFile(@, id, w2.st[id]),
                         !.st = Unlink(@, id)]
    IN  CASE fault = "manifest" -> CommitCleanup(w1, id)
          [] fault = "summary" -> CommitCleanup(w2, id)
          [] OTHER -> r2

Faults == {"none", "manifest", "summary"}

CreateCall(req_id, files, req_root, status, detail, id, merkle_root, missing) ==
    [op |-> "create", conn |-> "none", status |-> status, detail |-> detail,
     req_id |-> req_id, id |-> id, files |-> files, req_root |-> req_root,
     merkle_root |-> merkle_root, missing |-> missing, archive |-> <<>>,
     size_bytes |-> 0, bundles |-> <<>>, page |-> 0, page_size |-> 0]

\* create_bundle, lines 37-147, one step: the handler never awaits.  A
\* draft that BundleManifestDraft refuses is answered 422 by the framework
\* and the handler is not called.
CreateBundleOn(lists, roots) ==
    /\ n_requests' = n_requests + 1
    /\ \E files \in lists, req_id \in DraftIds :
       \E merkle_root \in roots[files] :
        LET missing_hashes == MissingHashes(files)
            bundle_id == IF req_id # 0 THEN req_id ELSE ULID(n_ulid + 1)
            computed_merkle_root == compute_merkle_root(files)
            Fail(status, detail, missing) ==
                /\ last' = CreateCall(req_id, files, merkle_root, status,
                                      detail, 0, 0, missing)
                /\ UNCHANGED <<fsBundles, committed>>
        IN  IF files \in RejectedLists \/ ~validate_sha256_hash(merkle_root)
            THEN /\ Fail(422, "validation", <<>>)
                 /\ UNCHANGED <<n_ulid, clock>>
            ELSE IF missing_hashes # <<>>
            THEN /\ Fail(409, "missing_blobs", missing_hashes)
                 /\ UNCHANGED <<n_ulid, clock>>
            ELSE IF IdConflict(req_id)
            THEN /\ Fail(409, "id_conflict", <<>>)
                 /\ UNCHANGED <<n_ulid, clock>>
            ELSE /\ n_ulid' = IF req_id = 0 THEN n_ulid + 1 ELSE n_ulid
                 /\ IF ~RootMatches(merkle_root, computed_merkle_root)
                    THEN /\ Fail(409, "merkle_mismatch", <<>>)
                         /\ clock' = clock
                    ELSE \E now \in {clock, clock + 1}, fault \in Faults :
                         LET created_at == CreatedAt(now)
                             manifest == Manifest(bundle_id, created_at, files,
                                                  computed_merkle_root)
                             summary == Summary(bundle_id, created_at, files,
                                                computed_merkle_root)
                             fs == CommitFiles(BundleFs, bundle_id, manifest,
                                               summary, fault)
                         IN  /\ clock' = now
                             /\ manifests' = fs.m
                             /\ summaries' = fs.s
                             /\ manifest_tmp' = fs.mt
                             /\ summary_tmp' = fs.st
                             /\ IF fault = "none"
                                THEN /\ last' = CreateCall(req_id, files,
                                            merkle_root, 201, "created",
                                            bundle_id, computed_merkle_root,
                                            <<>>)
                                     /\ committed' = Append(committed, bundle_id)
                                ELSE /\ last' = CreateCall(req_id, files,
                                            merkle_root, 500, "storage", 0, 0,
                                            <<>>)
                                     /\ committed' = committed
    /\ UNCHANGED <<mk, commit, blobs, tmp, up>>

\* The requests of well-formed clients.
CreateBundle ==
    /\ n_requests < MaxRequests
    /\ CreateBundleOn(FileLists, [files \in FileLists |-> DraftRoots(files)])
    /\ UNCHANGED cli

\* ------------------------------------------------------------------ preflight
\* preflight.py, lines 27-34; a request that PreflightRequest refuses is
\* answered 422 by the framework and the handler is not called.
PreflightOn(lists) ==
    /\ n_requests' = n_requests + 1
    /\ \E files \in lists :
        last' = IF files \in RejectedLists
                THEN [NoCall EXCEPT !.op = "preflight", !.status = 422,
                                    !.detail = "validation", !.files = files]
                ELSE [NoCall EXCEPT !.op = "preflight", !.status = 200,
                                    !.detail = "ok", !.files = files,
                                    !.missing = MissingHashes(files)]
    /\ UNCHANGED <<mk, commit, blobs, tmp, up, fsBundles, committed, n_ulid, clock>>

\* The requests of well-formed clients.
Preflight ==
    /\ n_requests < MaxRequests
    /\ PreflightOn(FileLists)
    /\ UNCHANGED cli

\* ------------------------------------------------------------------ download
\* Ids a download URL may name: every id in use and one that is not.
UrlIds == ClientIds \cup {ULID(k) : k \in 1..(n_ulid + 1)}

\* The archive with one entry for every blob instead of every file.
ZipArchive_OnePerBlob(files) ==
    LET kept == SelectSeq([i \in 1..Len(files) |-> i],
                    LAMBDA i : \A j \in 1..(i - 1) :
                                   files[j].hash # files[i].hash)
    IN  [k \in 1..Len(kept) |->
            [arcname |-> files[kept[k]].bundle_path,
             bytes |-> blobs[files[kept[k]].hash]]]

\* Lines 84-87: zf.write(blob_path, arcname=bundle_path) for every file of
\* the manifest, in order.
ZipArchive(files) ==
    [i \in 1..Len(files) |->
        [arcname |-> files[i].bundle_path, bytes |-> blobs[files[i].hash]]]

\* download_bundle.py, lines 38-99: 415, 404, 500 on a missing blob, or the
\* archive with one entry per file of the manifest.
DownloadBundle ==
    /\ n_requests < MaxRequests
    /\ n_requests' = n_requests + 1
    /\ \E bundle_id \in UrlIds, format \in {"zip", "tar"} :
        LET Reply(status, detail, archive) ==
                [NoCall EXCEPT !.op = "download", !.status = status,
                               !.detail = detail, !.req_id = bundle_id,
                               !.archive = archive]
            files == manifests[bundle_id].files
        IN  last' =
              IF format # "zip" THEN Reply(415, "format", <<>>)
              ELSE IF bundle_id \notin DOMAIN manifests
              THEN Reply(404, "not_found", <<>>)
              ELSE IF \E i \in 1..Len(files) : ~blob_exists(files[i].hash)
              THEN Reply(500, "missing_blob", <<>>)
              ELSE Reply(200, "ok", ZipArchive(files))
    /\ UNCHANGED <<mk, cli, commit, blobs, tmp, up, fsBundles, committed, n_ulid, clock>>

\* ------------------------------------------------------------------ list
\* str < str of Python: lexicographic by code point, a proper prefix first.
RECURSIVE StrLess(_, _)
StrLess(a, b) ==
    IF b = <<>> THEN FALSE
    ELSE IF a = <<>> THEN TRUE
    ELSE IF a[1] # b[1] THEN a[1] < b[1]
    ELSE StrLess(Tail(a), Tail(b))

\* list.sort(key=created_at, reverse=True) is stable: an element goes behind
\* every element whose key is not smaller than its own.
RECURSIVE InsertDescending(_, _)
InsertDescending(b, sorted) ==
    IF sorted = <<>> THEN <<b>>
    ELSE IF StrLess(sorted[1].created_at, b.created_at) THEN <<b>> \o sorted
    ELSE <<sorted[1]>> \o InsertDescending(b, Tail(sorted))

RECURSIVE SortDescending(_)
SortDescending(all_bundles) ==
    IF all_bundles = <<>> THEN <<>>
    ELSE LET n == Len(all_bundles)
         IN  InsertDescending(all_bundles[n],
                              SortDescending(SubSeq(all_bundles, 1, n - 1)))

\* summaries_dir.glob("*.json"): the files in an order the OS chooses.
GlobOrders(dir) ==
    {order \in [1..Cardinality(DOMAIN dir) -> DOMAIN dir] :
        \A i, j \in DOMAIN order : order[i] = order[j] => i = j}

\* A file of summaries/ is the JSON object it holds, as a record of its
\* keys; a file whose text is not JSON is a record with the one field `raw`.
\* Line 47, json.loads: whether it returns.
IsJson(summary_text) == "raw" \notin DOMAIN summary_text

\* dict.get(key, default)
Get(summary, key, default) ==
    IF key \in DOMAIN summary THEN summary[key] ELSE default

\* shared/types.py:25-32, the constraints pydantic enforces when line 67
\* constructs BundleSummary: hash_algo is the literal, the counters are
\* not negative.
FieldsValid(summary) ==
    /\ Get(summary, "hash_algo", "sha256") = "sha256"
    /\ Get(summary, "file_count", 0) >= 0
    /\ Get(summary, "total_bytes", 0) >= 0

\* Lines 44-81 for one file: "ok" when a BundleSummary is appended, "skip"
\* when the file is passed over (JSONDecodeError or KeyError at line 77, or
\* no merkle root to be had at lines 60-64), "raise" when the constructor
\* raises a ValidationError, which line 77 does not catch.
ReadSummary(summary) ==
    IF ~IsJson(summary) THEN "skip"
    ELSE IF /\ "merkle_root" \notin DOMAIN summary
            /\ \/ "id" \notin DOMAIN summary
               \/ summary.id \notin DOMAIN manifests
    THEN "skip"
    ELSE IF "id" \notin DOMAIN summary \/ "created_at" \notin DOMAIN summary
    THEN "skip"
    ELSE IF ~FieldsValid(summary) THEN "raise"
    ELSE "ok"

\* Lines 67-74: BundleSummary of shared/types.py keeps these five fields.
BundleSummary(summary) ==
    [id |-> summary.id, created_at |-> summary.created_at,
     hash_algo |-> Get(summary, "hash_algo", "sha256"),
     file_count |-> Get(summary, "file_count", 0),
     total_bytes |-> Get(summary, "total_bytes", 0)]

\* The slice counting pages from zero.
PageSlice_FromZero(all_bundles, page, page_size) ==
    LET start_idx == page_size * page
        end_idx == start_idx + page_size
        stop == IF end_idx < Len(all_bundles) THEN end_idx
                ELSE Len(all_bundles)
    IN  IF start_idx >= Len(all_bundles) THEN <<>>
        ELSE SubSeq(all_bundles, start_idx + 1, stop)

\* Lines 87-95: all_bundles[start_idx:end_idx], empty from the end on.
PageSlice(all_bundles, page, page_size) ==
    LET start_idx == page_size * (page - 1)
        end_idx == start_idx + page_size
        stop == IF end_idx < Len(all_bundles) THEN end_idx
                ELSE Len(all_bundles)
    IN  IF start_idx >= Len(all_bundles) THEN <<>>
        ELSE SubSeq(all_bundles, start_idx + 1, stop)

Pages == {1, 2, 3}
PageSizes == {1, 2}

\* list_bundles, lines 30-100, one step.  The names the route imports
\* (SUMMARIES_DIR, MANIFESTS_DIR, PAGE_SIZE, ListBundlesResponse) and the
\* names it uses (summaries_dir, BundleListResponse) are read as the
\* summaries directory, the manifests directory and the response class of
\* shared/api_contracts/list_bundles.py.  An exception that leaves the loop
\* is answered 500 by line 99.
ListBundles ==
    /\ n_requests < MaxRequests
    /\ n_requests' = n_requests + 1
    /\ \E order \in GlobOrders(summaries), page \in Pages,
          page_size \in PageSizes :
        LET read == SelectSeq(order,
                        LAMBDA id : ReadSummary(summaries[id]) = "ok")
            all_bundles == SortDescending(
                [i \in DOMAIN read |-> BundleSummary(summaries[read[i]])])
            call == [NoCall EXCEPT !.op = "list", !.page = page,
                                   !.page_size = page_size]
        IN  last' =
              IF \E id \in DOMAIN summaries :
                     ReadSummary(summaries[id]) = "raise"
              THEN [call EXCEPT !.status = 500, !.detail = "storage"]
              ELSE [call EXCEPT !.status = 200, !.detail = "ok",
                        !.bundles = PageSlice(all_bundles, page, page_size)]
    /\ UNCHANGED <<mk, cli, commit, blobs, tmp, up, fsBundles, committed, n_ulid, clock>>

Next ==
    \/ \E r \in UploadReqs : UploadBegin(r)
    \/ \E r \in UploadReqs : UploadChunk(r)
    \/ \E r \in UploadReqs : UploadFinish(r)
    \/ \E r \in UploadReqs : UploadStreamError(r)
    \/ CreateBundle
    \/ Preflight
    \/ DownloadBundle
    \/ ListBundles

Spec == Init /\ [][Next]_vars

\* ------------------------------------------------------------ commit steps
\* The commit of create_bundle one file-system call at a time: what the
\* data root holds between two calls is what another process, or the next
\* start of the server, finds there.  The steps are those of a draft that
\* passed every check; a refused draft makes no call.

\* The calls of lines 115-122 that have been made for the id, read off the
\* directories: 0 to 4.
CommitProgress(fs, id) ==
    CASE id \in DOMAIN fs.s -> 4
      [] id \in DOMAIN fs.st -> 3
      [] id \in DOMAIN fs.m -> 2
      [] id \in DOMAIN fs.mt -> 1
      [] OTHER -> 0

\* The rename of the summary made before that of the manifest.
CommitCallAt_SummaryFirst(fs, id, manifest, summary) ==
    IF id \in DOMAIN fs.st
    THEN [fs EXCEPT !.s = WriteFile(@, id, fs.st[id]), !.st = Unlink(@, id)]
    ELSE IF id \in DOMAIN fs.mt /\ id \in DOMAIN fs.s
    THEN [fs EXCEPT !.m = WriteFile(@, id, fs.mt[id]), !.mt = Unlink(@, id)]
    ELSE IF id \in DOMAIN fs.mt
    THEN [fs EXCEPT !.st = WriteFile(@, id, summary)]
    ELSE [fs EXCEPT !.mt = WriteFile(@, id, manifest)]

\* The next call of lines 115-122: write_text of the manifest's temp file
\* (line 116), its rename (117), write_text of the summary's temp file
\* (120), its rename (121).
CommitCallAt(fs, id, manifest, summary) ==
    CASE CommitProgress(fs, id) = 0 ->
             [fs EXCEPT !.mt = WriteFile(@, id, manifest)]
      [] CommitProgress(fs, id) = 1 ->
             [fs EXCEPT !.m = WriteFile(@, id, fs.mt[id]),
                        !.mt = Unlink(@, id)]
      [] CommitProgress(fs, id) = 2 ->
             [fs EXCEPT !.st = WriteFile(@, id, summary)]
      [] OTHER ->
             [fs EXCEPT !.s = WriteFile(@, id, fs.st[id]),
                        !.st = Unlink(@, id)]

\* Lines 37-114: the checks passed, the id and the stamp chosen, the
\* documents built; no file-system call of the commit made yet.
CreateOpen ==
    /\ commit.pc = "none"
    /\ n_requests < MaxRequests
    /\ n_requests' = n_requests + 1
    /\ \E files \in FileLists, req_id \in DraftIds, now \in {clock, clock + 1} :
        LET bundle_id == IF req_id # 0 THEN req_id ELSE ULID(n_ulid + 1)
            computed_merkle_root == compute_merkle_root(files)
        IN  /\ MissingHashes(files) = <<>>
            /\ ~IdConflict(req_id)
            /\ n_ulid' = IF req_id = 0 THEN n_ulid + 1 ELSE n_ulid
            /\ clock' = now
            /\ commit' = [pc |-> "committing", req_id |-> req_id,
                          id |-> bundle_id, files |-> files,
                          merkle_root |-> computed_merkle_root]
    /\ UNCHANGED <<mk, cli, blobs, tmp, up, fsBundles, last, committed>>

\* One call of lines 115-122 returns; after the fourth the request answers
\* 201.
CommitCall ==
    /\ commit.pc = "committing"
    /\ LET created_at == CreatedAt(clock)
           manifest == Manifest(commit.id, created_at, commit.files,
                                commit.merkle_root)
           summary == Summary(commit.id, created_at, commit.files,
                              commit.merkle_root)
           fs == CommitCallAt(BundleFs, commit.id, manifest, summary)
       IN  /\ manifests' = fs.m
           /\ summaries' = fs.s
           /\ manifest_tmp' = fs.mt
           /\ summary_tmp' = fs.st
           /\ IF commit.id \in DOMAIN fs.m /\ commit.id \in DOMAIN fs.s
              THEN /\ last' = CreateCall(commit.req_id, commit.files,
                                  commit.merkle_root, 201, "created",
                                  commit.id, commit.merkle_root, <<>>)
                   /\ committed' = Append(committed, commit.id)
                   /\ commit' = NoCommit
              ELSE UNCHANGED <<last, committed, commit>>
    /\ UNCHANGED <<mk, cli, blobs, tmp, up, n_requests, n_ulid, clock>>

\* The call that is due raises: lines 123-132, and the request answers 500.
CommitFault ==
    /\ commit.pc = "committing"
    /\ LET fs == CommitCleanup(BundleFs, commit.id)
       IN  /\ manifests' = fs.m
           /\ summaries' = fs.s
           /\ manifest_tmp' = fs.mt
           /\ summary_tmp' = fs.st
    /\ last' = CreateCall(commit.req_id, commit.files, commit.merkle_root,
                          500, "storage", 0, 0, <<>>)
    /\ commit' = NoCommit
    /\ UNCHANGED <<mk, cli, blobs, tmp, up, committed, n_requests, n_ulid,
                   clock>>

\* ------------------------------------------------------------- long bodies
\* The upload route under clients whose bodies are one byte longer than
\* those of the other specifications, and so longer than MAX_UPLOAD_BYTES.
LongBodies == BoundedSeq(Bytes, MaxBodyLen + 1)
LongHashes == {Sha256Bytes(body) : body \in LongBodies}

UploadBeginLong(r) ==
    /\ n_requests < MaxRequests
    /\ UploadBeginOn(r, LongHashes, 0..(MAX_UPLOAD_BYTES + 1))
UploadChunkLong(r) == UploadChunkOn(r, MaxBodyLen + 1)

LongNext ==
    \/ \E r \in UploadReqs : UploadBeginLong(r)
    \/ \E r \in UploadReqs : UploadChunkLong(r)
    \/ \E r \in UploadReqs : UploadFinish(r)
    \/ \E r \in UploadReqs : UploadStreamError(r)

LongSpec == Init /\ [][LongNext]_vars

\* ------------------------------------------------------------ cancellation
\* The task of an upload is cancelled while it awaits the next chunk (line
\* 73): asyncio.CancelledError is a BaseException, so neither `except
\* HTTPException` (line 96) nor `except Exception` (line 99) takes it; the
\* `with` statement closes the temp file, nothing unlinks it, and the
\* request ends with no response.
UploadCancel(r) ==
    /\ up[r].pc = "streaming"
    /\ up' = [up EXCEPT ![r].pc = "cancelled"]
    /\ UNCHANGED <<mk, cli, commit, blobs, tmp, fsBundles, last, committed, n_requests,
                   n_ulid, clock>>

\* The server whose requests may be cancelled.
CancelNext ==
    \/ \E r \in UploadReqs : UploadBegin(r)
    \/ \E r \in UploadReqs : UploadChunk(r)
    \/ \E r \in UploadReqs : UploadFinish(r)
    \/ \E r \in UploadReqs : UploadStreamError(r)
    \/ \E r \in UploadReqs : UploadCancel(r)
    \/ CreateBundle
    \/ Preflight
    \/ DownloadBundle
    \/ ListBundles

CancelSpec == Init /\ [][CancelNext]_vars

\* ------------------------------------------------------------------ restart
\* The server started on the data root an earlier run left behind
\* (ensure_directories keeps what exists): that run published one blob of
\* one chunk and committed one bundle of one file at instant 0.  The ULID
\* and the clock go on from there; no request is in progress.
WarmBody == <<1>>
WarmHash == Sha256Bytes(WarmBody)
WarmFiles == <<[bundle_path |-> 1, size_bytes |-> Len(WarmBody),
                hash |-> WarmHash]>>
WarmId == ULID(1)

WarmInit ==
    /\ blobs = WriteFile(EmptyDir, WarmHash, WarmBody)
    /\ tmp = EmptyDir
    /\ up = [r \in UploadReqs |-> IdleUpload]
    /\ manifests = WriteFile(EmptyDir, WarmId,
                       Manifest(WarmId, CreatedAt(0), WarmFiles,
                                compute_merkle_root(WarmFiles)))
    /\ summaries = WriteFile(EmptyDir, WarmId,
                       Summary(WarmId, CreatedAt(0), WarmFiles,
                               compute_merkle_root(WarmFiles)))
    /\ manifest_tmp = EmptyDir
    /\ summary_tmp = EmptyDir
    /\ last = NoCall
    /\ committed = <<WarmId>>
    /\ n_requests = 0
    /\ n_ulid = 1
    /\ clock = 0
    /\ mk = NoMerkle
    /\ cli = NoJob
    /\ commit = NoCommit

\* The requests on bundles; the store they need is there from the start.
WarmNext ==
    \/ CreateBundle
    \/ Preflight
    \/ DownloadBundle
    \/ ListBundles

WarmSpec == WarmInit /\ [][WarmNext]_vars

\* The same store under create requests seen call by call, and under
\* listings and downloads that come in between two calls.
CommitNext ==
    \/ CreateOpen
    \/ CommitCall
    \/ CommitFault
    \/ ListBundles
    \/ DownloadBundle

CommitSpec == WarmInit /\ [][CommitNext]_vars

\* ----------------------------------------------------------- any client
\* The server under requests of any client: the URL of an upload names any
\* hash string and any integer size, and the body of a preflight or create
\* request is a list with a defect, the empty list or the list of the
\* bundle in store.
RequestHashes == Hashes \cup BadHashes
RequestSizes == (-1)..(MAX_UPLOAD_BYTES + 1)
RequestLists == {<<>>, WarmFiles} \cup DefectiveLists

\* The roots a draft of any client may carry.
RequestRoots(files) ==
    IF files \in RejectedLists THEN {compute_merkle_root(<<>>)}
    ELSE DraftRoots(files) \cup BadHashes

UploadBeginRaw(r) ==
    /\ n_requests < MaxRequests
    /\ UploadBeginOn(r, RequestHashes, RequestSizes)

PreflightRaw ==
    /\ n_requests < MaxRequests
    /\ PreflightOn(RequestLists)
    /\ UNCHANGED cli

CreateBundleRaw ==
    /\ n_requests < MaxRequests
    /\ CreateBundleOn(RequestLists,
                      [files \in RequestLists |-> RequestRoots(files)])
    /\ UNCHANGED cli

ValidationNext ==
    \/ \E r \in UploadReqs : UploadBeginRaw(r)
    \/ \E r \in UploadReqs : UploadChunk(r)
    \/ \E r \in UploadReqs : UploadFinish(r)
    \/ \E r \in UploadReqs : UploadStreamError(r)
    \/ PreflightRaw
    \/ CreateBundleRaw

ValidationSpec == WarmInit /\ [][ValidationNext]_vars

\* ------------------------------------------------------------------ damage
\* The server started on a data root whose summaries directory was damaged
\* from outside: each file is a summary as create_bundle writes it, a
\* summary of an older version without merkle_root, or a damaged one.
ListIds == {1, 2, 3}
ListDates == {CreatedAt(0), CreatedAt(1)}

SummaryFiles(id) ==
    LET written(c) == Summary(id, c, <<>>, compute_merkle_root(<<>>))
    IN  {written(c) : c \in ListDates}
        \cup {[raw |-> "{"],
              [id |-> id, hash_algo |-> "sha256", file_count |-> 0,
               total_bytes |-> 0, merkle_root |-> compute_merkle_root(<<>>)],
              [written(CreatedAt(0)) EXCEPT !.file_count = -1],
              [id |-> id, created_at |-> CreatedAt(0), hash_algo |-> "sha256",
               file_count |-> 0, total_bytes |-> 0]}

SummaryDirs ==
    UNION {{dir \in [ids -> UNION {SummaryFiles(id) : id \in ids}] :
                \A id \in ids : dir[id] \in SummaryFiles(id)} :
           ids \in SUBSET ListIds}

ManifestDirs ==
    {EmptyDir,
     [id \in ListIds |-> Manifest(id, CreatedAt(0), <<>>,
                                  compute_merkle_root(<<>>))]}

ListInit ==
    /\ blobs = EmptyDir
    /\ tmp = EmptyDir
    /\ up = [r \in UploadReqs |-> IdleUpload]
    /\ manifests \in ManifestDirs
    /\ summaries \in SummaryDirs
    /\ manifest_tmp = EmptyDir
    /\ summary_tmp = EmptyDir
    /\ last = NoCall
    /\ committed = <<>>
    /\ n_requests = 0
    /\ n_ulid = 0
    /\ clock = 0
    /\ mk = NoMerkle
    /\ cli = NoJob
    /\ commit = NoCommit

ListNext == ListBundles

ListSpec == ListInit /\ [][ListNext]_vars

\* ------------------------------------------------------------------ merkle
\* compute_merkle_root called on its own: on any list of blob-like entries,
\* also one that no contract has validated.
MerklePaths == 1..MaxLeaves
MerkleHashes == {0, 1}
MerkleEntries ==
    [bundle_path : MerklePaths, size_bytes : {1}, hash : MerkleHashes]
MerkleInputs == BoundedSeq(MerkleEntries, MaxLeaves)

MerkleInit ==
    /\ ServerInit
    /\ cli = NoJob
    /\ mk \in {[pc |-> "call", files |-> files, root |-> 0] :
                files \in MerkleInputs}

MerkleCall ==
    /\ mk.pc = "call"
    /\ mk' = [mk EXCEPT !.pc = "done",
                         !.root = compute_merkle_root(mk.files)]
    /\ UNCHANGED <<serverVars, cli>>

MerkleNext == MerkleCall

MerkleSpec == MerkleInit /\ [][MerkleNext]_vars

\* ================================================================== claims
\* Steps of one upload connection.
UploadBegins(r) ==
    n_requests' # n_requests /\ last'.op = "upload" /\ last'.conn = r
UploadEnds(r) == up[r].pc = "streaming" /\ up'[r].pc = "done"
\* The step is a create_bundle call.
CreateStep == n_requests' # n_requests /\ last'.op = "create"
HashSet(files) == {files[i].hash : i \in 1..Len(files)}

\* C1: every file under its final blob name holds a complete byte string
\* whose SHA-256 is that name, whatever uploads are in progress or failed.
C1_NoPartialBlob ==
    \A h \in DOMAIN blobs : blobs[h] \in Bodies /\ Sha256Bytes(blobs[h]) = h

\* A blob is published while another upload holds a partly written temp
\* file whose bytes do not hash to the name it was asked to store.
C1_Witness ==
    /\ DOMAIN blobs # {}
    /\ \E r \in UploadReqs :
        /\ up[r].pc = "streaming"
        /\ tmp[up[r].tmp_path] # <<>>
        /\ Sha256Bytes(tmp[up[r].tmp_path]) # up[r].hash

C3_ManifestIffSummary == DOMAIN manifests = DOMAIN summaries

\* A create request failed in its commit while another bundle is stored.
C3_Witness ==
    /\ DOMAIN manifests # {}
    /\ last.op = "create" /\ last.status = 500

C5_ReferentialClosure ==
    /\ (last.op = "create" /\ last.status = 201)
        => HashSet(last.files) \subseteq DOMAIN blobs
    /\ \A id \in DOMAIN manifests :
        \A h \in HashSet(manifests[id].files) :
            h \in DOMAIN blobs /\ Sha256Bytes(blobs[h]) = h

\* A bundle with a file entry is stored.
C5_Witness ==
    /\ last.op = "create" /\ last.status = 201 /\ last.files # <<>>
    /\ last.id \in DOMAIN manifests
    /\ manifests[last.id].files = last.files

\* C6: a draft is committed only with the root the server recomputes from
\* its files; an unequal root (blobs published, id free) answers 409
\* MerkleMismatch and writes nothing; stored manifests and summaries carry
\* the recomputed root, and so does the 201 response.
C6_MerkleGate ==
    /\ [][CreateStep =>
            LET computed == compute_merkle_root(last'.files)
            IN  /\ last'.status = 201 =>
                    /\ last'.req_root = computed
                    /\ last'.merkle_root = computed
                    /\ manifests'[last'.id].merkle_root = computed
                    /\ summaries'[last'.id].merkle_root = computed
                /\ (/\ last'.req_root # computed
                    /\ HashSet(last'.files) \subseteq DOMAIN blobs
                    /\ ~(last'.req_id # 0 /\ last'.req_id \in DOMAIN manifests))
                   => /\ last'.status = 409
                      /\ last'.detail = "merkle_mismatch"
                      /\ UNCHANGED fsBundles]_vars
    /\ [](\A id \in DOMAIN manifests :
            manifests[id].merkle_root = compute_merkle_root(manifests[id].files))

\* A draft with a wrong root was refused while a bundle is stored.
C6_Witness ==
    /\ last.op = "create" /\ last.detail = "merkle_mismatch"
    /\ DOMAIN manifests # {}

\* C7: an upload of a hash that is already published (declared size within
\* the cap) answers 200 exists without reading the body, and leaves the
\* blob files and the temp directory as they were; the upload that
\* published the hash before it had streamed its body and answered 201.
C7_UploadIdempotent ==
    [][\A r \in UploadReqs :
        /\ (UploadBegins(r) /\ up'[r].hash \in DOMAIN blobs
                            /\ up'[r].detail # "too_large")
            => /\ up'[r].pc = "done"
               /\ up'[r].status = 200 /\ up'[r].detail = "exists"
               /\ blobs' = blobs /\ tmp' = tmp
        /\ (UploadEnds(r) /\ up'[r].status = 201)
            => blobs'[up[r].hash] = up[r].hasher]_vars

\* Of two requests, the first was an upload answered 201 and the second an
\* upload of the same hash answered 200.
C7_Witness ==
    \E r1, r2 \in UploadReqs :
        /\ up[r1].pc = "done" /\ up[r2].pc = "done"
        /\ up[r1].hash = up[r2].hash
        /\ r1 # r2
        /\ n_requests = 2 /\ last.op = "upload" /\ last.conn = r2
        /\ up[r1].status = 201
        /\ up[r2].status = 200 /\ up[r2].detail = "exists"

\* C8: an upload whose streamed body does not hash to the hash of its URL
\* answers 409 HashMismatch; its temp file is gone, and no blob file was
\* created, replaced or removed by it.
C8_HashMismatch ==
    [][\A r \in UploadReqs :
        (UploadEnds(r) /\ up'[r].detail # "storage"
                       /\ Sha256Bytes(up[r].hasher) # up[r].hash)
        => /\ up'[r].status = 409 /\ up'[r].detail = "hash_mismatch"
           /\ up[r].tmp_path \notin DOMAIN tmp'
           /\ blobs' = blobs]_vars

\* An upload failed with HashMismatch and its hash has no blob file.
C8_Witness ==
    \E r \in UploadReqs :
        /\ up[r].pc = "done" /\ up[r].detail = "hash_mismatch"
        /\ up[r].hash \notin DOMAIN blobs
        /\ DOMAIN tmp = {}

\* C9: a create request with an unpublished file hash answers 409
\* MissingBlobs naming exactly the absent hashes, and no manifest, summary
\* or temp file is written.
C9_MissingBlobs ==
    [][(CreateStep /\ ~(HashSet(last'.files) \subseteq DOMAIN blobs))
        => /\ last'.status = 409 /\ last'.detail = "missing_blobs"
           /\ {last'.missing[i] : i \in 1..Len(last'.missing)}
                = HashSet(last'.files) \ DOMAIN blobs
           /\ UNCHANGED fsBundles]_vars

\* A draft with one published and one unpublished hash was refused.
C9_Witness ==
    /\ last.op = "create" /\ last.detail = "missing_blobs"
    /\ HashSet(last.files) \cap DOMAIN blobs # {}
    /\ HashSet(last.files) \ DOMAIN blobs # {}
    /\ DOMAIN manifests = {} /\ DOMAIN summaries = {}

\* C10: a published blob stays published and its bytes never change.
C10_BlobsImmutable ==
    [][\A h \in DOMAIN blobs :
        h \in DOMAIN blobs' /\ blobs'[h] = blobs[h]]_vars

\* A blob is published while an upload of the same hash, begun before the
\* blob appeared, has streamed its body and is about to rename over it.
C10_Witness ==
    \E r \in UploadReqs :
        /\ up[r].pc = "streaming"
        /\ up[r].hash \in DOMAIN blobs
        /\ Sha256Bytes(up[r].hasher) = up[r].hash

\* C11: a bundle answered 201 is present from then on, and no later step
\* changes or removes its manifest or its summary.
C11_CommittedImmutable ==
    /\ [](\A i \in 1..Len(committed) :
            committed[i] \in DOMAIN manifests \cap DOMAIN summaries)
    /\ [][\A i \in 1..Len(committed) :
            LET id == committed[i]
            IN  /\ id \in DOMAIN manifests' /\ manifests'[id] = manifests[id]
                /\ id \in DOMAIN summaries' /\ summaries'[id] = summaries[id]]_vars

\* Two bundles were committed at different instants and the first is stored.
C11_Witness ==
    /\ Len(committed) = 2
    /\ committed[1] \in DOMAIN manifests
    /\ manifests[committed[1]].created_at # manifests[committed[2]].created_at

\* C17: an upload declaring more than MAX_UPLOAD_BYTES answers 413 in its
\* first step, having read no chunk and created no file; a declared size of
\* MAX_UPLOAD_BYTES or less is not answered 413, and starts streaming when
\* the hash is unpublished.
C17_SizeCap ==
    [][\A r \in UploadReqs : UploadBegins(r) =>
        /\ last'.size_bytes > MAX_UPLOAD_BYTES
            => /\ up'[r].pc = "done"
               /\ up'[r].status = 413 /\ up'[r].detail = "too_large"
               /\ up'[r].hasher = <<>>
               /\ tmp' = tmp /\ blobs' = blobs
        /\ last'.size_bytes <= MAX_UPLOAD_BYTES
            => /\ up'[r].status # 413
               /\ up'[r].hash \notin DOMAIN blobs
                    => /\ up'[r].pc = "streaming"
                       /\ up'[r].tmp_path \in DOMAIN tmp']_vars

\* One upload was refused for its size and the next, declaring exactly the
\* limit, is streaming.
C17_Witness ==
    \E r1, r2 \in UploadReqs :
        /\ up[r1].pc = "done" /\ up[r1].status = 413
        /\ DOMAIN blobs = {}
        /\ up[r2].pc = "streaming"
        /\ last.op = "upload" /\ last.conn = r2
        /\ last.size_bytes = MAX_UPLOAD_BYTES

C19_FreshIds ==
    [][(CreateStep /\ last'.req_id = 0 /\ last'.status = 201) =>
        /\ last'.id \notin DOMAIN manifests \cup DOMAIN summaries
        /\ DOMAIN manifests' = DOMAIN manifests \cup {last'.id}
        /\ DOMAIN summaries' = DOMAIN summaries \cup {last'.id}
        /\ \A id \in DOMAIN manifests : manifests'[id] = manifests[id]
        /\ \A id \in DOMAIN summaries : summaries'[id] = summaries[id]
        /\ Len(committed') = Cardinality(DOMAIN manifests')]_vars

\* Two requests with the same draft and no id were both answered 201 and
\* left two bundles.
C19_Witness ==
    /\ Len(committed) = 2
    /\ last.op = "create" /\ last.req_id = 0 /\ last.status = 201
    /\ committed[1] # committed[2]
    /\ committed[1] \notin ClientIds
    /\ manifests[committed[1]].files = manifests[committed[2]].files
    /\ manifests[committed[1]].merkle_root = manifests[committed[2]].merkle_root

\* The instant a created_at string denotes.
Instant(created_at) ==
    IF Len(created_at) = 2 THEN (created_at[1] - 48) * MicrosPerSecond
    ELSE (created_at[1] - 48) * MicrosPerSecond + (created_at[3] - 48)

\* C20: in every listing a bundle stamped later stands before every bundle
\* stamped earlier.
C20_NewestFirst ==
    last.op = "list" =>
        \A i, j \in 1..Len(last.bundles) :
            i < j => Instant(last.bundles[i].created_at)
                        >= Instant(last.bundles[j].created_at)

\* ------------------------------------------------------------------ client
\* One run of the create command. The job starts after file discovery and
\* hashing, with a non-empty list of blobs that PreflightRequest accepts
\* (unique bundle paths). The server's answers are inputs of the job.
ClientJobs == {files \in FileLists : files # <<>>}

\* The roots a 201 answer to POST /bundles may carry.
ResponseRoots == {compute_merkle_root(files) : files \in FileLists}

ClientInit ==
    /\ ServerInit
    /\ mk = NoMerkle
    /\ cli \in {[NoJob EXCEPT !.pc = "hashed", !.blobs = files] :
                   files \in ClientJobs}

\* sys.exit(code) after click.echo(text)
Exit(job, code, text) ==
    [job EXCEPT !.pc = "exited", !.exit_code = code, !.output = text]

\* api_client.preflight: the answer names some of the hashes sent, or
\* raise_for_status raises a requests exception.
client_preflight ==
    /\ cli.pc = "hashed"
    /\ \/ \E missing \in SUBSET {cli.blobs[i].hash : i \in 1..Len(cli.blobs)} :
              cli' = [cli EXCEPT !.pc = "preflighted", !.missing = missing]
       \/ cli' = Exit(cli, 4, "Network error")
    /\ UNCHANGED <<serverVars, mk>>

\* One task for every blob of the job.
UploadTasks_All(files, missing_hashes) ==
    [i \in 1..Len(files) |-> files[i].hash]

\* A task for the first blob found missing and for no other.
UploadTasks_FirstOnly(files, missing_hashes) ==
    LET absent == SelectSeq([i \in 1..Len(files) |-> files[i].hash],
                            LAMBDA h : h \in missing_hashes)
    IN  IF absent = <<>> THEN <<>> ELSE <<absent[1]>>

\* The for loop of _upload_blobs_async: one task for every blob whose hash
\* is in missing_hashes, in list order; a task is the hash it will PUT.
RECURSIVE UploadTasks(_, _)
UploadTasks(files, missing_hashes) ==
    IF files = <<>> THEN <<>>
    ELSE IF files[1].hash \in missing_hashes
         THEN <<files[1].hash>> \o UploadTasks(Tail(files), missing_hashes)
         ELSE UploadTasks(Tail(files), missing_hashes)

\* Step 4 up to asyncio.gather; with nothing missing there is no task.
upload_blobs_async ==
    /\ cli.pc = "preflighted"
    /\ cli' = [cli EXCEPT !.pc = "uploading",
                          !.tasks = UploadTasks(cli.blobs, cli.missing)]
    /\ UNCHANGED <<serverVars, mk>>

\* One task's PUT /blobs/{hash}: answered 200 or 201, or raise_for_status
\* raises, which the command reports as an unexpected error.
upload_blob_async(i) ==
    /\ cli.pc = "uploading"
    /\ i \in (DOMAIN cli.tasks) \ cli.done
    /\ \/ cli' = [cli EXCEPT !.done = @ \cup {i}]
       \/ cli' = Exit(cli, 4, "Unexpected error")
    /\ UNCHANGED <<serverVars, mk>>

\* The wait that ends with the first task.
GatherDone_First(tasks, done) == done # {} \/ tasks = <<>>

\* await asyncio.gather(*tasks) returns when every task has returned; with
\* nothing missing asyncio.run is not called at all (line 65).
GatherDone(tasks, done) == done = DOMAIN tasks

\* The comparison that accepts every answer.
MerkleRootMismatch_Never(response_root, computed_merkle_root) == FALSE

\* response.merkle_root != computed_merkle_root
MerkleRootMismatch(response_root, computed_merkle_root) ==
    response_root # computed_merkle_root

\* Steps 5 to 7 and the command's exit: compute the root, POST the draft
\* (sent), compare the root of a 201 answer (posted); an error status
\* raises in raise_for_status.
client_create_bundle ==
    /\ cli.pc = "uploading"
    /\ GatherDone(cli.tasks, cli.done)
    /\ LET computed_merkle_root == compute_merkle_root(cli.blobs)
           job == [cli EXCEPT !.computed_merkle_root = computed_merkle_root,
                              !.sent = TRUE]
       IN  \/ \E response_root \in ResponseRoots :
                  LET answered == [job EXCEPT !.posted = TRUE,
                                              !.response_root = response_root]
                  IN  cli' = IF MerkleRootMismatch(response_root,
                                                   computed_merkle_root)
                             THEN Exit(answered, 2, "Merkle root mismatch")
                             ELSE Exit(answered, 0, "Created bundle")
           \/ cli' = Exit(job, 4, "Network error")
    /\ UNCHANGED <<serverVars, mk>>

ClientNext ==
    \/ client_preflight
    \/ upload_blobs_async
    \/ \E i \in 1..MaxFiles : upload_blob_async(i)
    \/ client_create_bundle

ClientSpec == ClientInit /\ [][ClientNext]_vars

\* ---------------------------------------------------------- merkle claims
MerkleLists == {files \in MerkleInputs : NoDuplicatePaths(files)}

PairSet(files) ==
    {<<files[i].bundle_path, files[i].hash>> : i \in 1..Len(files)}

Perms(n) == {p \in [1..n -> 1..n] : \A i, j \in 1..n : p[i] = p[j] => i = j}

Permute(files, p) == [i \in 1..Len(files) |-> files[p[i]]]

OtherSizes == {0, 2}

Resize(files, sizes) ==
    [i \in 1..Len(files) |-> [files[i] EXCEPT !.size_bytes = sizes[i]]]

\* C12: for lists without duplicate bundle paths, equal roots mean the same
\* (path, hash) pairs; in particular lists of different length have
\* different roots.
C12_RootProvesSetEquality ==
    (mk.pc = "done" /\ NoDuplicatePaths(mk.files)) =>
        \A G \in MerkleLists :
            compute_merkle_root(G) = mk.root =>
                /\ PairSet(G) = PairSet(mk.files)
                /\ Len(G) = Len(mk.files)

C12_Witness ==
    /\ mk.pc = "done"
    /\ NoDuplicatePaths(mk.files)
    /\ Len(mk.files) = MaxLeaves
    /\ \E G \in MerkleLists :
           G # mk.files /\ compute_merkle_root(G) = mk.root

\* C13 as stated: every permutation of every list has the root of the list,
\* and the root does not depend on size_bytes.
C13_AnyListPermutation ==
    mk.pc = "done" =>
        /\ \A p \in Perms(Len(mk.files)) :
               compute_merkle_root(Permute(mk.files, p)) = mk.root
        /\ \A sizes \in [1..Len(mk.files) -> OtherSizes] :
               compute_merkle_root(Resize(mk.files, sizes)) = mk.root

\* C13 amended: every permutation of a list WITHOUT DUPLICATE BUNDLE PATHS
\* has the root of the list; for every list the root does not depend on
\* size_bytes.
C13_UniquePathPermutation ==
    mk.pc = "done" =>
        /\ NoDuplicatePaths(mk.files) =>
               \A p \in Perms(Len(mk.files)) :
                   compute_merkle_root(Permute(mk.files, p)) = mk.root
        /\ \A sizes \in [1..Len(mk.files) -> OtherSizes] :
               compute_merkle_root(Resize(mk.files, sizes)) = mk.root

C13_Witness ==
    /\ mk.pc = "done"
    /\ NoDuplicatePaths(mk.files)
    /\ Len(mk.files) = MaxLeaves
    /\ mk.files[1].bundle_path > mk.files[2].bundle_path
    /\ mk.files[1].hash # mk.files[2].hash

\* The reference definition, written level by level from its description.
\* The leaves in ascending path order, entries of one path in list order.
RefLeaves(files) ==
    LET n == Len(files)
        p == CHOOSE q \in Perms(n) :
                 \A i, j \in 1..n : i < j =>
                     \/ files[q[i]].bundle_path < files[q[j]].bundle_path
                     \/ /\ files[q[i]].bundle_path = files[q[j]].bundle_path
                        /\ q[i] < q[j]
    IN  [i \in 1..n |-> LeafDigest(files[p[i]].bundle_path, files[p[i]].hash)]

RefParents(level) ==
    LET n == Len(level)
    IN  [i \in 1..((n + 1) \div 2) |->
            NodeDigest(level[2 * i - 1],
                       level[IF 2 * i <= n THEN 2 * i ELSE n])]

RECURSIVE RefReduce(_)
RefReduce(level) ==
    IF Len(level) = 1 THEN level[1] ELSE RefReduce(RefParents(level))

ReferenceRoot(files) ==
    IF files = <<>> THEN Sha256Bytes(<<>>) ELSE RefReduce(RefLeaves(files))

\* C14: compute_merkle_root equals the reference definition on every list:
\* the empty list gives SHA256(""), one entry gives its leaf unpaired, two
\* give SHA256(La || Lb), three give SHA256(SHA256(La||Lb) || SHA256(Lc||Lc)).
C14_MatchesReference ==
    mk.pc = "done" =>
        LET L == RefLeaves(mk.files)
        IN  /\ mk.root = ReferenceRoot(mk.files)
            /\ Len(mk.files) = 0 => mk.root = Sha256Bytes(<<>>)
            /\ Len(mk.files) = 1 => mk.root = L[1]
            /\ Len(mk.files) = 2 => mk.root = NodeDigest(L[1], L[2])
            /\ Len(mk.files) = 3 =>
                   mk.root = NodeDigest(NodeDigest(L[1], L[2]),
                                        NodeDigest(L[3], L[3]))

C14_Witness ==
    /\ mk.pc = "done"
    /\ Len(mk.files) = 3
    /\ mk.files[1].bundle_path > mk.files[3].bundle_path
    /\ mk.root = NodeDigest(
           NodeDigest(LeafDigest(mk.files[3].bundle_path, mk.files[3].hash),
                      LeafDigest(mk.files[2].bundle_path, mk.files[2].hash)),
           NodeDigest(LeafDigest(mk.files[1].bundle_path, mk.files[1].hash),
                      LeafDigest(mk.files[1].bundle_path, mk.files[1].hash)))

\* ---------------------------------------------------------- client claims
\* C15: within one create job no hash is uploaded more than once: two
\* answered PUTs of the job never carry the same hash.
C15_OneUploadPerHash ==
    \A i, j \in cli.done : cli.tasks[i] = cli.tasks[j] => i = j

SoundSummary(summary) ==
    /\ "raw" \notin DOMAIN summary
    /\ {"id", "created_at", "hash_algo", "file_count", "total_bytes"}
           \subseteq DOMAIN summary
    /\ summary.hash_algo = "sha256"
    /\ summary.file_count >= 0
    /\ summary.total_bytes >= 0
    /\ "merkle_root" \in DOMAIN summary \/ summary.id \in DOMAIN manifests

SoundIds == {id \in DOMAIN summaries : SoundSummary(summaries[id])}

\* C21: whatever damaged files summaries/ holds, a listing answers 200 and
\* returns sound summaries only; its first page, when it is large enough,
\* returns every sound summary.
C21_CorruptSkipped ==
    last.op = "list" =>
        /\ last.status = 200
        /\ \A i \in 1..Len(last.bundles) : last.bundles[i].id \in SoundIds
        /\ (last.page = 1 /\ Cardinality(SoundIds) <= last.page_size) =>
               {last.bundles[i].id : i \in 1..Len(last.bundles)} = SoundIds

\* Elements s*(p-1) .. s*p-1 of a list, counted from 0.
RefPage(full, p, s) ==
    LET first == s * (p - 1)
        rest == Len(full) - first
        n == IF rest <= 0 THEN 0 ELSE IF rest < s THEN rest ELSE s
    IN  [k \in 1..n |-> full[first + k]]

RECURSIVE ConcatPages(_, _, _)
ConcatPages(full, s, p) ==
    IF p = 0 THEN <<>>
    ELSE ConcatPages(full, s, p - 1) \o PageSlice(full, p, s)

\* The listings a call may have sorted: one per order of the directory.
FullListings ==
    {SortDescending(
        [i \in DOMAIN read |-> BundleSummary(summaries[read[i]])]) :
        read \in {SelectSeq(order,
                      LAMBDA id : ReadSummary(summaries[id]) = "ok") :
                  order \in GlobOrders(summaries)}}

\* C22: a listing answered 200 is elements s*(p-1) .. s*p-1 of the sorted
\* listing; over that listing the pages of one size are disjoint and add up
\* to all of it, page i+1 of size 1 is its i-th element, and a page that
\* starts at or past the end is empty.
C22_PageIsSlice ==
    (last.op = "list" /\ last.status = 200) =>
        /\ \E full \in FullListings :
               last.bundles = RefPage(full, last.page, last.page_size)
        /\ \A full \in FullListings, s \in PageSizes :
               /\ ConcatPages(full, s, Len(full) + 1) = full
               /\ \A p \in 1..(Len(full) + 1) :
                      PageSlice(full, p, s) = RefPage(full, p, s)
               /\ \A i \in 0..(Len(full) - 1) :
                      PageSlice(full, i + 1, 1) = <<full[i + 1]>>
               /\ \A p \in 1..(Len(full) + 2) :
                      s * (p - 1) >= Len(full) => PageSlice(full, p, s) = <<>>

C22_Witness ==
    /\ last.op = "list" /\ last.status = 200
    /\ last.page = 2 /\ last.page_size = 2
    /\ Len(last.bundles) = 1
    /\ DOMAIN summaries = ListIds
    /\ \A id \in DOMAIN summaries : ReadSummary(summaries[id]) = "ok"

\* -------------------------------------------------------- download claims
\* C23: a download of a stored bundle in zip format answers 200, and its
\* archive has one entry per file entry of the manifest, in order, named by
\* the entry's bundle_path (so no name twice), holding the bytes of the blob
\* published under the entry's hash, whose SHA-256 is that hash.
C23_RoundTrip ==
    (last.op = "download" /\ last.detail # "format"
        /\ last.req_id \in DOMAIN manifests) =>
        LET files == manifests[last.req_id].files
        IN  /\ last.status = 200
            /\ Len(last.archive) = Len(files)
            /\ \A i \in 1..Len(files) :
                   /\ last.archive[i].arcname = files[i].bundle_path
                   /\ last.archive[i].bytes = blobs[files[i].hash]
                   /\ Sha256Bytes(last.archive[i].bytes) = files[i].hash
            /\ \A i, j \in 1..Len(last.archive) :
                   last.archive[i].arcname = last.archive[j].arcname => i = j

\* A bundle committed in this run whose two paths share the blob that the
\* earlier bundle references was downloaded.
C23_Witness ==
    /\ last.op = "download" /\ last.status = 200
    /\ Len(committed) = 2 /\ last.req_id = committed[2]
    /\ Len(last.archive) = 2
    /\ last.archive[1].arcname # last.archive[2].arcname
    /\ last.archive[1].bytes = WarmBody
    /\ last.archive[2].bytes = WarmBody

\* ------------------------------------------------------- preflight claims
\* The step is a preflight call.
PreflightStep == n_requests' # n_requests /\ last'.op = "preflight"

\* C24: a preflight request that passes validation answers 200, and a hash
\* is in its missing list exactly if a file of the request carries it and
\* no blob of that name is published when the request is served; the blob
\* store is left as it was.
C24_PreflightExact ==
    [][(PreflightStep /\ last'.status # 422) =>
        /\ last'.status = 200
        /\ {last'.missing[i] : i \in 1..Len(last'.missing)}
               = HashSet(last'.files) \ DOMAIN blobs
        /\ blobs' = blobs]_vars

\* A preflight of two files found one hash published and one missing.
C24_Witness ==
    /\ last.op = "preflight" /\ last.status = 200
    /\ Len(last.files) = 2
    /\ Len(last.missing) = 1
    /\ last.missing[1] \notin DOMAIN blobs
    /\ \E i \in 1..2 : last.files[i].hash \in DOMAIN blobs

\* ------------------------------------------------------ statistics claims
\* The sum of the declared sizes, entry by entry from the first.
TotalOf(files) ==
    LET acc[n \in 0..Len(files)] ==
            IF n = 0 THEN 0 ELSE acc[n - 1] + files[n].size_bytes
    IN  acc[Len(files)]

\* C25: every stored manifest and every stored summary carries the number
\* of file entries of its draft as file_count and the sum of their
\* size_bytes as total_bytes (0 and 0 for no entry); the files of a manifest
\* are those of the draft that was answered 201.
C25_Statistics ==
    /\ [](\A id \in DOMAIN manifests :
             /\ manifests[id].file_count = Len(manifests[id].files)
             /\ manifests[id].total_bytes = TotalOf(manifests[id].files)
             /\ id \in DOMAIN summaries =>
                    /\ summaries[id].file_count = Len(manifests[id].files)
                    /\ summaries[id].total_bytes
                           = TotalOf(manifests[id].files))
    /\ [][(CreateStep /\ last'.status = 201) =>
             /\ manifests'[last'.id].files = last'.files
             /\ summaries'[last'.id].file_count = Len(last'.files)
             /\ summaries'[last'.id].total_bytes = TotalOf(last'.files)]_vars

\* A bundle of two entries that declare different sizes is stored, and so
\* is an empty bundle.
C25_Witness ==
    \E id, none \in DOMAIN manifests :
        /\ Len(manifests[id].files) = 2
        /\ manifests[id].files[1].size_bytes # manifests[id].files[2].size_bytes
        /\ summaries[id].total_bytes = 3
        /\ manifests[none].files = <<>>
        /\ summaries[none].total_bytes = 0

\* ------------------------------------------------------- validation claims
\* The defects of a request, read off the strings.
HashMalformed(h) ==
    h < 0 /\ (Len(BadHashText(h)) # 64
              \/ \E i \in 1..Len(BadHashText(h)) :
                     BadHashText(h)[i] \notin LowerHex)
HasDotDotSegment(t) ==
    \E i \in 1..(Len(t) - 1) :
        /\ t[i] = 46 /\ t[i + 1] = 46
        /\ (i = 1 \/ t[i - 1] = 47)
        /\ (i + 1 = Len(t) \/ t[i + 2] = 47)
PathMalformed(p) ==
    LET t == PathText(p)
    IN  t = <<>> \/ t[1] = 47 \/ HasDotDotSegment(t)
FilesMalformed(files) ==
    \/ \E i \in 1..Len(files) :
          \/ HashMalformed(files[i].hash)
          \/ files[i].size_bytes < 0
          \/ PathMalformed(files[i].bundle_path)
    \/ \E i, j \in 1..Len(files) :
          i # j /\ files[i].bundle_path = files[j].bundle_path

\* The step is a request, and the request carries one of the defects.
MalformedRequest ==
    /\ n_requests' # n_requests
    /\ \/ /\ last'.op \in {"preflight", "create"}
          /\ FilesMalformed(last'.files)
       \/ /\ last'.op = "upload"
          /\ \/ HashMalformed(up'[last'.conn].hash)
             \/ last'.size_bytes < 0

\* The status of the request of this step.
StatusOfStep ==
    IF last'.op = "upload" THEN up'[last'.conn].status ELSE last'.status

MaxStream == 2

\* What iter_content may yield: a keep-alive chunk or a chunk of data.
Chunks == {<<>>, <<1>>, <<2>>}
Streams == BoundedSeq(Chunks, MaxStream)
Formats == {"zip", "tar"}
HttpErrors == {404, 415, 500}

\* A file name of the working directory is a number: 0 is bundle_<id>.zip,
\* k from 1 up is bundle_<id>.<k>.zip, and -(k + 1) is the name mkstemp
\* makes with prefix ".<name k>." and suffix ".tmp".
ExistingNames == {0, 1, 2}
OldData == <<9>>
Directories == {[name \in S |-> OldData] : S \in SUBSET ExistingNames}

\* download.py:109-126.
handle_file_conflict(cwd) ==
    IF 0 \notin DOMAIN cwd THEN 0
    ELSE CHOOSE counter \in 1..Cardinality(ExistingNames) :
             /\ counter \notin DOMAIN cwd
             /\ \A k \in 1..(counter - 1) : k \in DOMAIN cwd

\* download.py:37-43.
mkstemp(final_path) == -(final_path + 1)

\* The error path leaving the temp file behind.
RemoveTemp_Keep(cwd, temp_path) == cwd

\* download.py:54-58 and 162-166: unlink the temp file if it exists.
RemoveTemp(cwd, temp_path) ==
    IF temp_path \in DOMAIN cwd THEN Unlink(cwd, temp_path) ELSE cwd

\* download.py:49-50: rename follows the return of download_with_progress,
\* which returns when the iterator is exhausted.
RenameDue(pos, stream) == pos = Len(stream)

\* before is the working directory when the command started.
DownloadJobs ==
    {[pc |-> "start", format |-> format, cwd |-> cwd, before |-> cwd,
      final_path |-> 0, temp_path |-> 0, stream |-> <<>>, pos |-> 0,
      exit_code |-> 0, output |-> "none"] :
        format \in Formats, cwd \in Directories}

DownloadInit ==
    /\ ServerInit
    /\ mk = NoMerkle
    /\ cli \in DownloadJobs

\* An error caught at lines 54-58 and reported at lines 60 and after.
DownloadFail(code, text) ==
    cli' = Exit([cli EXCEPT !.cwd = RemoveTemp(cli.cwd, cli.temp_path)],
                code, text)

\* Lines 25-43: validate_format, the choice of the final name, mkstemp.
download_begin ==
    /\ cli.pc = "start"
    /\ IF cli.format # "zip"
       THEN cli' = Exit(cli, 1, "Unsupported format")
       ELSE LET final_path == handle_file_conflict(cli.cwd)
                temp_path == mkstemp(final_path)
            IN  \/ cli' = [cli EXCEPT !.pc = "created",
                               !.final_path = final_path,
                               !.temp_path = temp_path,
                               !.cwd = WriteFile(cli.cwd, temp_path, <<>>)]
                \/ cli' = Exit(cli, 4, "Failed to write file")
    /\ UNCHANGED <<serverVars, mk>>

\* Lines 47-49 and line 147: the GET with raise_for_status, and the open
\* of the temp file for writing.
download_request ==
    /\ cli.pc = "created"
    /\ \/ \E status \in HttpErrors :
             IF status = 404 THEN DownloadFail(2, "not found")
             ELSE DownloadFail(4, "HTTP error")
       \/ DownloadFail(4, "Failed to connect")
       \/ DownloadFail(4, "Failed to write file")
       \/ \E stream \in Streams :
             cli' = [cli EXCEPT !.pc = "streaming", !.stream = stream]
    /\ UNCHANGED <<serverVars, mk>>

\* Lines 148-151: one chunk of the loop, written unless it is empty; the
\* write may raise IOError.
download_chunk ==
    /\ cli.pc = "streaming"
    /\ cli.pos < Len(cli.stream)
    /\ \/ cli' = [cli EXCEPT !.pos = @ + 1,
                      !.cwd = WriteFile(cli.cwd, cli.temp_path,
                                  cli.cwd[cli.temp_path]
                                      \o cli.stream[cli.pos + 1])]
       \/ DownloadFail(4, "Failed to write file")
    /\ UNCHANGED <<serverVars, mk>>

\* The iterator raising a requests exception in place of the next chunk or
\* of the end of the stream.
download_lost ==
    /\ cli.pc = "streaming"
    /\ DownloadFail(4, "Network error")
    /\ UNCHANGED <<serverVars, mk>>

\* Lines 50-52: the rename, which may raise OSError, and exit 0.
download_rename ==
    /\ cli.pc = "streaming"
    /\ RenameDue(cli.pos, cli.stream)
    /\ \/ cli' = Exit([cli EXCEPT !.cwd =
                          WriteFile(Unlink(cli.cwd, cli.temp_path),
                                    cli.final_path, cli.cwd[cli.temp_path])],
                      0, "Downloaded")
       \/ DownloadFail(4, "Failed to write file")
    /\ UNCHANGED <<serverVars, mk>>

DownloadNext ==
    \/ download_begin
    \/ download_request
    \/ download_chunk
    \/ download_lost
    \/ download_rename

DownloadSpec == DownloadInit /\ [][DownloadNext]_vars

\* ---------------------------------------------------------- download claims
\* The bytes of a stream, one chunk after the other.
RECURSIVE StreamBytes(_)
StreamBytes(stream) ==
    IF stream = <<>> THEN <<>> ELSE Head(stream) \o StreamBytes(Tail(stream))

\* The files of the directory that are not temp files.
NamedFiles(cwd) == [name \in {n \in DOMAIN cwd : n >= 0} |-> cwd[name]]

\* C27: while the command runs the directory holds, beside the files it
\* held at the start, at most the temp file; when the command has failed
\* the directory is what it was at the start, with no final file and no
\* temp file; when it has succeeded the directory holds no temp file and
\* the final file, under the first free name, with the bytes of the whole
\* stream.
C27_DownloadAtomic ==
    /\ cli.pc # "exited" => NamedFiles(cli.cwd) = cli.before
    /\ cli.pc = "exited" /\ cli.exit_code # 0 => cli.cwd = cli.before
    /\ cli.pc = "exited" /\ cli.exit_code = 0 =>
           cli.cwd = WriteFile(cli.before, handle_file_conflict(cli.before),
                               StreamBytes(cli.stream))

\* A download lost after a chunk was written, next to an older download.
C27_Witness ==
    /\ cli.pc = "exited" /\ cli.output = "Network error"
    /\ cli.pos >= 1 /\ StreamBytes(SubSeq(cli.stream, 1, cli.pos)) # <<>>
    /\ 0 \in DOMAIN cli.before

\* ------------------------------------------------------------ abort claims
\* The upload of connection r, with its temp file made, ends in this step:
\* cut off, or with a response.
UploadCutOff(r) ==
    /\ up[r].pc = "streaming"
    /\ \/ up'[r].pc = "cancelled"
       \/ up'[r].pc = "done" /\ up'[r].detail = "storage"
UploadAnswered(r) == up[r].pc = "streaming" /\ up'[r].pc = "done"

\* C28: when an upload is cut off after its temp file was made, by the
\* client going away or by the cancellation of the request, the temp file
\* does not exist once the request has ended, and the request published no
\* blob.
C28_AbortedCleanup ==
    [][\A r \in UploadReqs :
         UploadCutOff(r) =>
             /\ up[r].tmp_path \notin DOMAIN tmp'
             /\ blobs' = blobs]_vars

\* C29: an upload that made its temp file and is answered, with an error or
\* with success, has left no file of its own in tmp/ when the answer is
\* given; the temp files of the other requests are as they were.
C29_TempUnlinked ==
    [][\A r \in UploadReqs :
         UploadAnswered(r) =>
             /\ up[r].tmp_path \notin DOMAIN tmp'
             /\ tmp' = Unlink(tmp, up[r].tmp_path)]_vars

\* An upload answered 500 after a chunk was written, while the temp file of
\* a cancelled upload is still there.
C29_Witness ==
    \E r, q \in UploadReqs :
        /\ up[r].pc = "done" /\ up[r].status = 500
        /\ up[q].pc = "cancelled" /\ up[q].tmp_path \in DOMAIN tmp
        /\ DOMAIN tmp = {up[q].tmp_path}

\* --------------------------------------------------------- rollback claims
\* The bundle id of the create request of this step.
IdOfStep == IF last'.req_id # 0 THEN last'.req_id ELSE ULID(n_ulid')

\* C30: a create request whose commit fails, at the manifest or at the
\* summary after the manifest was renamed into place, answers 500 and
\* leaves no manifest, summary or temp file under its bundle id; the
\* manifests and summaries of the other requests are what they were.
C30_CommitRollback ==
    [][(CreateStep /\ last'.status = 500) =>
          /\ IdOfStep \notin DOMAIN manifests' \cup DOMAIN summaries'
          /\ IdOfStep \notin DOMAIN manifest_tmp' \cup DOMAIN summary_tmp'
          /\ manifests' = manifests
          /\ summaries' = summaries]_vars

\* A create request under an id of its own failed in its commit, and the
\* bundle committed before it is in store with manifest and summary.
C30_Witness ==
    /\ last.op = "create" /\ last.status = 500 /\ last.req_id # 0
    /\ last.req_id \notin DOMAIN manifests
    /\ \E id \in DOMAIN manifests :
          id \in DOMAIN summaries /\ id # last.req_id

\* ------------------------------------------------------ client job claims
\* The upload tasks of the job that were started and have not returned.
InFlight ==
    IF cli.pc = "uploading" THEN (DOMAIN cli.tasks) \ cli.done ELSE {}

\* C31: the manifest POST of a job is sent only when every upload task of
\* the job has returned without error; a job with a failed upload ends
\* with no POST sent.
C31_PostAfterUploads ==
    /\ cli.sent => cli.done = DOMAIN cli.tasks
    /\ cli.output = "Unexpected error" => cli.pc = "exited" /\ ~cli.sent

\* A job of two uploads that sent its POST, and is past it.
C31_Witness ==
    /\ cli.sent /\ cli.pc = "exited"
    /\ Len(cli.tasks) = MaxFiles
    /\ cli.done = 1..MaxFiles

\* The number of blobs of the largest job.
LargestJob ==
    CHOOSE n \in 1..MaxFiles :
        /\ \E files \in ClientJobs : Len(files) = n
        /\ \A files \in ClientJobs : Len(files) <= n

\* C32: the uploads in flight stay below a worker count that is smaller
\* than the number of missing blobs of the largest job.
C32_BoundedParallelism == Cardinality(InFlight) < LargestJob

C33_StoredSizeCapped ==
    /\ \A tmp_path \in DOMAIN tmp : Len(tmp[tmp_path]) <= MAX_UPLOAD_BYTES
    /\ \A h \in DOMAIN blobs : Len(blobs[h]) <= MAX_UPLOAD_BYTES


\* The bytes a download of the manifest's files delivers.
DeliveredBytes(files) ==
    LET acc[n \in 0..Len(files)] ==
            IF n = 0 THEN 0 ELSE acc[n - 1] + Len(blobs[files[n].hash])
    IN  acc[Len(files)]

\* C38: every file entry of a stored manifest declares the length of the
\* blob it references, and total_bytes is the number of bytes a download
\* of the bundle delivers.
C38_SizesAreBlobLengths ==
    \A id \in DOMAIN manifests :
        LET files == manifests[id].files
        IN  /\ \A i \in 1..Len(files) :
                   files[i].hash \in DOMAIN blobs
                       => files[i].size_bytes = Len(blobs[files[i].hash])
            /\ HashSet(files) \subseteq DOMAIN blobs
                   => manifests[id].total_bytes = DeliveredBytes(files)

\* ------------------------------------------------------- projection claims
SummaryFields ==
    {"id", "created_at", "hash_algo", "file_count", "total_bytes",
     "merkle_root"}

\* C36: whenever the manifest and the summary of an id both exist, the
\* summary has the manifest's id, created_at, hash_algo, file_count,
\* total_bytes and merkle_root, and no other field (no files).
C36_SummaryIsProjection ==
    \A id \in DOMAIN manifests \cap DOMAIN summaries :
        /\ DOMAIN summaries[id] = SummaryFields
        /\ DOMAIN manifests[id] = SummaryFields \cup {"files"}
        /\ \A field \in SummaryFields :
               summaries[id][field] = manifests[id][field]

\* A second create request under the id of a stored bundle, with other
\* files, was refused, next to a bundle of two entries stored in this run.
C36_Witness ==
    /\ last.op = "create" /\ last.detail = "id_conflict"
    /\ last.req_id \in DOMAIN manifests \cap DOMAIN summaries
    /\ last.files # manifests[last.req_id].files
    /\ \E id \in DOMAIN manifests \cap DOMAIN summaries :
          Len(manifests[id].files) = 2


\* ---------------------------------------------------------- staging claims
\* C39: no temp file exists under bundles/manifests/ or bundles/summaries/,
\* and every file under blobs/ holds the bytes its name is the digest of.
C39_StagingOnlyInTmp ==
    /\ DOMAIN manifest_tmp = {}
    /\ DOMAIN summary_tmp = {}
    /\ \A h \in DOMAIN blobs : Sha256Bytes(blobs[h]) = h


\* ---------------------------------------------------------- listing claims
\* The ids of the listing that was answered last.
ListedIds == {last.bundles[i].id : i \in 1..Len(last.bundles)}

\* C37: every id of a listing has its manifest, when the listing is
\* answered and as long as it is the last answer; a summary file, which is
\* what makes an id listed, never disappears, and neither does the
\* manifest of an id that has one; a download of such an id never answers
\* 404.  The states are those between any two file-system calls of a
\* commit.
C37_ListedDownloadable ==
    /\ []((last.op = "list" /\ last.status = 200)
              => ListedIds \subseteq DOMAIN manifests)
    /\ []((last.op = "download" /\ last.req_id \in DOMAIN summaries)
              => last.status # 404)
    /\ [][/\ DOMAIN summaries \subseteq DOMAIN summaries'
          /\ \A id \in DOMAIN summaries :
                 id \in DOMAIN manifests' /\ manifests'[id] = manifests[id]]_vars

\* A listing answered while a commit had renamed its manifest and not yet
\* its summary: it names the bundle in store and not the one under way.
C37_Witness ==
    /\ last.op = "list" /\ last.status = 200 /\ ListedIds # {}
    /\ commit.pc = "committing"
    /\ commit.id \in DOMAIN manifests
    /\ commit.id \notin DOMAIN summaries
    /\ commit.id \notin ListedIds

\* -------------------------------------------------------- client discovery
\* cli/core/file_discovery.py.  A path is the sequence of its components
\* below the root, each a string; the root is <<>>.  The names used are
\* "a", "b", "d" and "e".
RootPath == <<>>
None == <<>>
TreeDirs == {RootPath, <<<<100>>>>, <<<<100>>, <<101>>>>}
TreeLeaves ==
    {<<<<97>>>>, <<<<100>>, <<97>>>>, <<<<100>>, <<98>>>>,
     <<<<100>>, <<101>>, <<97>>>>}

\* What a directory entry is: a regular file, a symlink, or not there.  The
\* directories of TreeDirs are there in every tree.
Trees == [TreeLeaves -> {"file", "link", "absent"}]

MaxInputs == 2      \* paths given to one call of discover_files

\* Path.is_file(), Path.is_dir() and Path.exists() on a resolved path.
is_file(tree, path) == path \in TreeLeaves /\ tree[path] = "file"
is_dir(tree, path) == path \in TreeDirs
exists(tree, path) == is_file(tree, path) \/ is_dir(tree, path)

\* Path.parent and Path.name; the root is its own parent and has the
\* empty name.
parent(path) ==
    IF path = RootPath THEN RootPath ELSE SubSeq(path, 1, Len(path) - 1)
name(path) == IF path = RootPath THEN <<>> ELSE path[Len(path)]

\* list(p.parents)[::-1] + [p]: the root first, p last.
Parts(path) == [i \in 1..(Len(path) + 1) |-> SubSeq(path, 1, i - 1)]

IsPrefix(base, path) ==
    Len(base) <= Len(path) /\ SubSeq(path, 1, Len(base)) = base

\* st_size of a regular file.
st_size(path) == Len(path)

\* Path.as_posix() of a relative path: the components joined by '/', and
\* "." for the empty path.
RECURSIVE JoinSlash(_)
JoinSlash(parts) ==
    IF Len(parts) = 1 THEN parts[1]
    ELSE parts[1] \o <<47>> \o JoinSlash(Tail(parts))

as_posix(rel_path) == IF rel_path = <<>> THEN <<46>> ELSE JoinSlash(rel_path)

\* The common parent taken from the first path alone.
find_common_parent_First(tree, paths) ==
    IF paths = <<>> THEN RootPath ELSE parent(paths[1])

\* file_discovery.py:78-95, _find_common_parent.
find_common_parent(tree, paths) ==
    IF Len(paths) = 1
    THEN IF is_file(tree, paths[1]) THEN parent(paths[1]) ELSE paths[1]
    ELSE LET all_parts == [i \in 1..Len(paths) |-> Parts(paths[i])]
             shortest == IF paths = <<>> THEN 0
                         ELSE CHOOSE n \in {Len(all_parts[i]) :
                                                i \in 1..Len(paths)} :
                                  \A i \in 1..Len(paths) :
                                      n <= Len(all_parts[i])
             Same(j) == \A i \in 1..Len(paths) :
                            all_parts[i][j] = all_parts[1][j]
             common == CHOOSE k \in 0..shortest :
                           /\ \A j \in 1..k : Same(j)
                           /\ k < shortest => ~Same(k + 1)
         IN  IF common = 0 THEN RootPath ELSE all_parts[1][common]

\* file_discovery.py:98-115, _create_discovered_file: relative_to raises
\* ValueError when base_dir is not a prefix of file_path.
create_discovered_file(file_path, base_dir) ==
    LET rel_path == IF IsPrefix(base_dir, file_path)
                    THEN SubSeq(file_path, Len(base_dir) + 1, Len(file_path))
                    ELSE <<name(file_path)>>
    IN  [absolute_path |-> file_path,
         relative_path |-> as_posix(rel_path),
         size_bytes |-> st_size(file_path)]

\* file_discovery.py:63-70: os.walk below a directory, symlinks skipped.
\* The order of a walk is the order of the directory listings, which the
\* file system chooses, so the files of one walk are kept as a set.
Walk(tree, path) ==
    {leaf \in TreeLeaves :
        /\ tree[leaf] # "absent"
        /\ IsPrefix(path, leaf)
        /\ tree[leaf] # "link"}

\* file_discovery.py:33-75.  input_paths are the paths of line 36, which
\* resolve() has made absolute and free of symlinks; base_dir is None, the
\* empty sequence, or holds one resolved path.  The list discovered has one element for each input
\* path: the files that the path added.
discover_files(tree, input_paths, base_dir) ==
    IF \E i \in 1..Len(input_paths) : ~exists(tree, input_paths[i])
    THEN [raised |-> "FileNotFoundError", discovered |-> <<>>]
    ELSE LET base_dir_path ==
                 IF base_dir = None
                 THEN IF Len(input_paths) = 1
                             /\ is_file(tree, input_paths[1])
                      THEN parent(input_paths[1])
                      ELSE IF Len(input_paths) = 1
                                  /\ is_dir(tree, input_paths[1])
                           THEN parent(input_paths[1])
                           ELSE find_common_parent(tree, input_paths)
                 ELSE base_dir[1]
             discovered ==
                 [i \in 1..Len(input_paths) |->
                     IF is_file(tree, input_paths[i])
                     THEN {create_discovered_file(input_paths[i],
                                                  base_dir_path)}
                     ELSE {create_discovered_file(file_path, base_dir_path) :
                              file_path \in Walk(tree, input_paths[i])}]
         IN  IF \A i \in 1..Len(discovered) : discovered[i] = {}
             THEN [raised |-> "ValueError", discovered |-> <<>>]
             ELSE [raised |-> "none", discovered |-> discovered]

\* The calls: any tree, any list of resolved paths, and base_dir left out
\* or given.
InputPaths == TreeDirs \cup TreeLeaves
BaseDirs == {None, <<<<<<100>>>>>>}
DiscoveryCalls ==
    {[pc |-> "call", tree |-> tree, input_paths |-> input_paths,
      base_dir |-> base_dir, raised |-> "none", discovered |-> <<>>] :
        tree \in Trees, input_paths \in BoundedSeq(InputPaths, MaxInputs),
        base_dir \in BaseDirs}

DiscoveryInit ==
    /\ ServerInit
    /\ mk = NoMerkle
    /\ cli \in DiscoveryCalls

DiscoveryCall ==
    /\ cli.pc = "call"
    /\ LET got == discover_files(cli.tree, cli.input_paths, cli.base_dir)
       IN  cli' = [cli EXCEPT !.pc = "done", !.raised = got.raised,
                              !.discovered = got.discovered]
    /\ UNCHANGED <<serverVars, mk>>

DiscoveryNext == DiscoveryCall

DiscoverySpec == DiscoveryInit /\ [][DiscoveryNext]_vars

\* --------------------------------------------------------- discovery claims
\* The (bundle path, file) pairs of a result.
PairsOf(discovered) ==
    UNION {{<<f.relative_path, f.absolute_path>> : f \in discovered[i]} :
              i \in 1..Len(discovered)}

\* The base directory as the rule states it: the parent of a single input,
\* else the longest path that is a prefix of every input, an input being a
\* prefix of itself.
RuleBase(input_paths) ==
    IF Len(input_paths) = 1 THEN parent(input_paths[1])
    ELSE CHOOSE c \in InputPaths :
             /\ \A i \in 1..Len(input_paths) : IsPrefix(c, input_paths[i])
             /\ \A c2 \in InputPaths :
                    (\A i \in 1..Len(input_paths) :
                        IsPrefix(c2, input_paths[i])) => Len(c2) <= Len(c)

\* A bundle path leads from base to file: the base followed by the
\* components of the bundle path is the file, "." standing for the base
\* itself.
LeadsTo(base, relative_path, file_path) ==
    IF relative_path = <<46>> THEN file_path = base
    ELSE base \o SplitSlash(relative_path) = file_path

\* The input lists that hold the same paths as often, in another order.
Reorderings(input_paths) ==
    {[i \in 1..Len(input_paths) |-> input_paths[perm[i]]] :
        perm \in {f \in [1..Len(input_paths) -> 1..Len(input_paths)] :
                     \A i, j \in 1..Len(input_paths) :
                         f[i] = f[j] => i = j}}

DiscoveryDone == cli.pc = "done" /\ cli.raised = "none" /\ cli.base_dir = None

Clients == {"c1", "c2"}

\* The content with a given digest.
BodyOf(hash) == CHOOSE body \in Bodies : Sha256Bytes(body) = hash

\* hasher.py and file_discovery.py:111: the blob of a discovered file.
HashedEntries ==
    {[bundle_path |-> path, size_bytes |-> Len(BodyOf(hash)), hash |-> hash] :
        path \in Paths,
        hash \in {h \in Hashes : Len(BodyOf(h)) <= MAX_UPLOAD_BYTES}}

\* The jobs, their entries in str order of the paths: the order of a job's
\* entries only numbers its tasks.
PipelineJobs ==
    {files \in BoundedSeq(HashedEntries, MaxFiles) :
        /\ files # <<>>
        /\ \A i, j \in 1..Len(files) :
               i < j => files[i].bundle_path < files[j].bundle_path}

PipelineConns == Clients \X (1..MaxFiles)

\* A job before preflight.
HashedJob(files) ==
    [pc |-> "hashed", blobs |-> files, missing |-> {}, status |-> 0,
     detail |-> "none", exit_code |-> 0]

PipelineInit ==
    /\ blobs = EmptyDir
    /\ tmp = EmptyDir
    /\ up = [r \in PipelineConns |-> IdleUpload]
    /\ manifests = EmptyDir
    /\ summaries = EmptyDir
    /\ manifest_tmp = EmptyDir
    /\ summary_tmp = EmptyDir
    /\ last = NoCall
    /\ committed = <<>>
    /\ n_requests = 0
    /\ n_ulid = 0
    /\ clock = 0
    /\ commit = NoCommit
    /\ mk = NoMerkle
    /\ cli \in [Clients -> {HashedJob(files) : files \in PipelineJobs}]

\* The tasks of a job, once preflight has answered.
TasksOf(c) == UploadTasks(cli[c].blobs, cli[c].missing)

\* bundler.py:58-62: POST /bundles/preflight with the job's blobs; the
\* answer's missing list becomes a set.
pipeline_preflight(c) ==
    /\ cli[c].pc = "hashed"
    /\ PreflightOn({cli[c].blobs})
    /\ cli' = [cli EXCEPT ![c].pc = "preflighted",
                          ![c].missing =
                              {last'.missing[i] : i \in 1..Len(last'.missing)}]

\* bundler.py:149-155 and create_blob.py:44-72: task i opens its file and
\* sends PUT /blobs/{hash}?size_bytes=...
pipeline_put(c, i) ==
    /\ cli[c].pc = "preflighted"
    /\ i \in DOMAIN TasksOf(c)
    /\ up[<<c, i>>].pc = "idle"
    /\ UploadBeginOn(<<c, i>>, {TasksOf(c)[i]}, {Len(BodyOf(TasksOf(c)[i]))})

\* The next chunk of the file reaches the server.
pipeline_chunk(c, i) ==
    /\ cli[c].pc = "preflighted"
    /\ UploadChunkOn(<<c, i>>, Len(BodyOf(up[<<c, i>>].hash)))
    /\ up'[<<c, i>>].hasher =
           SubSeq(BodyOf(up[<<c, i>>].hash), 1, Len(up[<<c, i>>].hasher) + 1)

\* The body has been sent whole; mkdir and rename do not raise.
pipeline_finish(c, i) ==
    /\ cli[c].pc = "preflighted"
    /\ up[<<c, i>>].pc = "streaming"
    /\ up[<<c, i>>].hasher = BodyOf(up[<<c, i>>].hash)
    /\ UploadFinish(<<c, i>>)
    /\ up'[<<c, i>>].detail # "storage"

\* The tasks that have their answer.
AnsweredTasks(c) == {i \in DOMAIN TasksOf(c) : up[<<c, i>>].pc = "done"}

\* bundler.py:64-85 after the uploads: raise_for_status of a task raises on
\* an error status; else the job computes its root and posts the draft,
\* which carries no id.  The commit's file-system calls do not raise.
pipeline_create(c) ==
    /\ cli[c].pc = "preflighted"
    /\ GatherDone(TasksOf(c), AnsweredTasks(c))
    /\ IF \E i \in AnsweredTasks(c) : up[<<c, i>>].status >= 400
       THEN /\ cli' = [cli EXCEPT ![c].pc = "exited", ![c].exit_code = 4,
                                  ![c].detail = "upload"]
            /\ UNCHANGED serverVars
            /\ UNCHANGED mk
       ELSE /\ CreateBundleOn({cli[c].blobs},
                    [files \in {cli[c].blobs} |->
                        {compute_merkle_root(files)}])
            /\ last'.req_id = 0
            /\ last'.detail # "storage"
            /\ cli' = [cli EXCEPT ![c].pc = "exited",
                           ![c].status = last'.status,
                           ![c].detail = last'.detail,
                           ![c].exit_code =
                               IF last'.status # 201 THEN 4
                               ELSE IF MerkleRootMismatch(last'.merkle_root,
                                           compute_merkle_root(cli[c].blobs))
                               THEN 2 ELSE 0]

PipelineNext ==
    \/ \E c \in Clients : pipeline_preflight(c)
    \/ \E c \in Clients, i \in 1..MaxFiles : pipeline_put(c, i)
    \/ \E c \in Clients, i \in 1..MaxFiles : pipeline_chunk(c, i)
    \/ \E c \in Clients, i \in 1..MaxFiles : pipeline_finish(c, i)
    \/ \E c \in Clients : pipeline_create(c)

PipelineSpec == PipelineInit /\ [][PipelineNext]_vars

\* ---------------------------------------------------------- pipeline claims
\* C35: with several create jobs running against one server, overlapping
\* file sets and no I/O failure, every upload answered is answered 200 or
\* 201, and every job that has ended got 201 for its commit, with the root
\* it computed, and exits 0.
C35_PipelinesIndependent ==
    /\ \A r \in PipelineConns :
           up[r].pc = "done" => up[r].status \in {200, 201}
    /\ \A c \in Clients :
           cli[c].pc = "exited" =>
               /\ cli[c].status = 201
               /\ cli[c].detail = "created"
               /\ cli[c].exit_code = 0

\* Both jobs have ended; they name one content, which both found missing
\* and both uploaded while the other's upload was under way (each got
\* 201), and the first job has a second file that the other has not.
C35_Witness ==
    /\ \A c \in Clients : cli[c].pc = "exited" /\ cli[c].status = 201
    /\ Len(cli["c1"].blobs) = 2
    /\ Len(cli["c2"].blobs) = 1
    /\ \E i \in DOMAIN TasksOf("c1") :
           /\ TasksOf("c1")[i] = cli["c2"].blobs[1].hash
           /\ up[<<"c1", i>>].status = 201
           /\ up[<<"c2", 1>>].status = 201
    /\ Cardinality(DOMAIN manifests) = 2

====
